---- MODULE Spec2Model ----
(***************************************************************************)
(* Command dispatch and duplicate suppression of the Lark crypto bot.      *)
(*                                                                         *)
(*   lark_bot.py                 process_message_event, is_duplicate_message*)
(*   bot/utils/handler_registry  HandlerRegistry.execute_command, middleware*)
(*   bot/handlers/check_handler  CheckHandler.handle, _CHECK_EXECUTION_LOCK *)
(*                                                                         *)
(* Every webhook delivery is an asyncio task.  An action of the model is   *)
(* the code a task runs between two suspension points (await on the        *)
(* network, on the worker thread, on the session), so the interleavings of *)
(* the model are those of the single-threaded event loop.                  *)
(***************************************************************************)
EXTENDS Integers, Sequences, FiniteSets, TLC

\* ------------------------------------------------------------------ bounds
NumTasks == 2
MaxDeliveries == 3
MaxTicks == 2
\* RateLimiter(max_commands=...), as constructed for the middleware chain
MaxCommands == 1
\* calls of register and unregister on one registry
MaxRegistryCalls == 4
\* characters of a message text given to the parser
MaxContentLen == 6
\* calls of handle and set_enabled on one handler
MaxHandlerCalls == 3
\* arguments of one command
MaxArgs == 3

\* ------------------------------------------------------- program constants
MESSAGE_CACHE_TTL == 300
\* a staleness threshold longer than the TTL of the cache
STALE_SECONDS_beyond_ttl == MESSAGE_CACHE_TTL + MESSAGE_CACHE_TTL

STALE_SECONDS == 60
RATE_TIME_WINDOW == 60
MsPerSecond == 1000

Tasks == 1..NumTasks

\* Clock advances the environment can make (milliseconds): the smallest
\* step, the staleness threshold and the TTL, so that the clock reaches
\* both sides of each comparison of the code.
TickSteps == {1, STALE_SECONDS * MsPerSecond, MESSAGE_CACHE_TTL * MsPerSecond}

\* ------------------------------------------------------------ text helpers
\* Message text is a sequence of one-character strings.
Whitespace == {" "}

UpperToLower ==
    [c \in {"A", "B", "C", "D", "E", "H", "K", "L", "N", "O", "P"} |->
        CASE c = "A" -> "a" [] c = "B" -> "b" [] c = "C" -> "c"
          [] c = "D" -> "d" [] c = "E" -> "e" [] c = "H" -> "h"
          [] c = "K" -> "k" [] c = "L" -> "l" [] c = "N" -> "n"
          [] c = "O" -> "o" [] c = "P" -> "p"]

LowerChar(c) == IF c \in DOMAIN UpperToLower THEN UpperToLower[c] ELSE c

\* str.lower()
Lower(s) == [i \in 1..Len(s) |-> LowerChar(s[i])]

RECURSIVE LStrip(_)
LStrip(s) ==
    IF s # <<>> /\ Head(s) \in Whitespace THEN LStrip(Tail(s)) ELSE s

RECURSIVE RStrip(_)
RStrip(s) ==
    IF s # <<>> /\ s[Len(s)] \in Whitespace
    THEN RStrip(SubSeq(s, 1, Len(s) - 1)) ELSE s

\* str.strip()
Strip(s) == RStrip(LStrip(s))

\* str.startswith(p)
StartsWith(s, p) == Len(s) >= Len(p) /\ SubSeq(s, 1, Len(p)) = p

\* s[n:]
DropPrefix(s, n) == SubSeq(s, n + 1, Len(s))

\* str.split(): the maximal runs of non-whitespace characters, in order
RECURSIVE SplitAcc(_, _, _)
SplitAcc(s, cur, acc) ==
    IF s = <<>> THEN (IF cur = <<>> THEN acc ELSE Append(acc, cur))
    ELSE IF Head(s) \in Whitespace
         THEN SplitAcc(Tail(s), <<>>, IF cur = <<>> THEN acc ELSE Append(acc, cur))
         ELSE SplitAcc(Tail(s), Append(cur, Head(s)), acc)

Split(s) == SplitAcc(s, <<>>, <<>>)

\* --------------------------------------------------------- message parser
command_prefix == <<"/">>

\* is_command that asks for the prefix only
is_command_prefix_only(content) == StartsWith(Strip(content), command_prefix)

\* LarkMessageParser.is_command
is_command(content) ==
    LET c == Strip(content) IN
    IF ~StartsWith(c, command_prefix) THEN FALSE
    ELSE Len(Strip(DropPrefix(c, Len(command_prefix)))) > 0

\* LarkMessageParser.parse_command: <<command, args>>
parse_command(content) ==
    LET c == Strip(content) IN
    IF ~is_command(content) THEN << <<>>, <<>> >>
    ELSE LET parts == Split(DropPrefix(c, Len(command_prefix))) IN
         IF parts = <<>> THEN << <<>>, <<>> >>
         ELSE << Lower(parts[1]), Tail(parts) >>

\* LarkMessage.is_from_bot
is_from_bot(sender_type) == sender_type = "bot"

\* LarkTopicManager.is_topic_message for TopicType.COMMANDS; a missing
\* thread_id reads as the empty string (LarkMessage.thread_id)
LARK_TOPIC_COMMANDS == "omt_commands"

\* is_topic_message that accepts every thread
is_topic_message_any_thread(message_thread_id) == message_thread_id # ""

is_topic_message(message_thread_id) ==
    IF message_thread_id = "" THEN FALSE
    ELSE message_thread_id = LARK_TOPIC_COMMANDS

\* ------------------------------------------------------------------ inputs
\* (event_id, message_id) of a delivery.  A transport that replays may
\* deliver any combination of two event ids and two message ids at any time;
\* one that does not delivers each event once, with ids of its own.
CrossedIds == {"ev1", "ev2"} \X {"om1", "om2"}
FreshIds ==
    << <<"ev1", "om1">>, <<"ev2", "om2">>, <<"ev3", "om3">>, <<"ev4", "om4">>,
       <<"ev5", "om5">> >>

IdsOffered(replay, n) ==
    IF replay THEN CrossedIds
    ELSE IF n + 1 \in DOMAIN FreshIds THEN {FreshIds[n + 1]} ELSE {}

Chars(str) ==
    CASE str = "/check" -> <<"/", "c", "h", "e", "c", "k">>
      [] str = "/BAL"   -> <<"/", "B", "A", "L">>
      [] str = "/help"  -> <<"/", "h", "e", "l", "p">>
      [] str = "/nope"  -> <<"/", "n", "o", "p", "e">>
      [] str = "hello"  -> <<"h", "e", "l", "l", "o">>

\* The shapes of message the transport delivers: who sent it, from what kind
\* of account, in which thread, with which text.
AllProfiles ==
    { [sender |-> "ou_alice",   sender_type |-> "user", thread_id |-> LARK_TOPIC_COMMANDS, content |-> Chars("/check")],
      [sender |-> "ou_bob",     sender_type |-> "user", thread_id |-> LARK_TOPIC_COMMANDS, content |-> Chars("/BAL")],
      [sender |-> "ou_alice",   sender_type |-> "user", thread_id |-> LARK_TOPIC_COMMANDS, content |-> Chars("/help")],
      [sender |-> "ou_alice",   sender_type |-> "user", thread_id |-> LARK_TOPIC_COMMANDS, content |-> Chars("/nope")],
      [sender |-> "ou_mallory", sender_type |-> "user", thread_id |-> LARK_TOPIC_COMMANDS, content |-> Chars("/check")],
      [sender |-> "ou_alice",   sender_type |-> "bot",  thread_id |-> LARK_TOPIC_COMMANDS, content |-> Chars("/check")],
      [sender |-> "ou_alice",   sender_type |-> "user", thread_id |-> LARK_TOPIC_COMMANDS, content |-> Chars("hello")],
      [sender |-> "ou_alice",   sender_type |-> "user", thread_id |-> "omt_other",         content |-> Chars("/check")] }

\* Messages that pass every gate on the way to a handler
Authorized(p) ==
    /\ p.sender \in {"ou_alice", "ou_bob"} /\ p.sender_type = "user"
    /\ p.thread_id = LARK_TOPIC_COMMANDS

\* The same command from two senders
RateProfiles ==
    { [sender |-> s, sender_type |-> "user", thread_id |-> LARK_TOPIC_COMMANDS,
       content |-> Chars("/help")] : s \in {"ou_alice", "ou_bob"} }

\* The same command from a person, from an account of sender type bot and
\* from an application: the sender of an application's message carries an
\* open_id (a bot's own replies) or an app_id only, which LarkMessage.sender_id
\* reads as the empty string.
SenderProfiles ==
    { [sender |-> "ou_alice", sender_type |-> "user", thread_id |-> LARK_TOPIC_COMMANDS, content |-> Chars("/help")],
      [sender |-> "ou_alice", sender_type |-> "bot",  thread_id |-> LARK_TOPIC_COMMANDS, content |-> Chars("/help")],
      [sender |-> "ou_bot",   sender_type |-> "app",  thread_id |-> LARK_TOPIC_COMMANDS, content |-> Chars("/help")],
      [sender |-> "",         sender_type |-> "app",  thread_id |-> LARK_TOPIC_COMMANDS, content |-> Chars("/help")] }

\* The same command from a listed and from an unlisted sender, posted in the
\* commands topic, in another topic, in an unknown thread and outside any
\* thread (thread_id missing or empty)
TopicProfiles ==
    { [sender |-> s, sender_type |-> "user", thread_id |-> th, content |-> Chars("/help")] :
        s \in {"ou_alice", "ou_mallory"},
        th \in {LARK_TOPIC_COMMANDS, "omt_dailyreport", "omt_other", ""} }

\* The check command from a listed sender and an unknown command from a
\* listed and from an unlisted sender
StageProfiles ==
    {p \in AllProfiles : Authorized(p) /\ p.content \in {Chars("/check"), Chars("/nope")}}
    \cup { [sender |-> "ou_mallory", sender_type |-> "user",
            thread_id |-> LARK_TOPIC_COMMANDS, content |-> Chars("/nope")] }

HelpProfiles == {p \in AllProfiles : Authorized(p) /\ p.content = Chars("/help")}
CheckProfiles ==
    {p \in AllProfiles : Authorized(p) /\ p.content \in {Chars("/check"), Chars("/BAL")}}

\* LARK_AUTHORIZED_USERS, as the process environment sets it
AuthorizedUserSets == { {"ou_alice", "ou_bob"} }

\* Values of LARK_AUTHORIZED_USERS after split(","), each entry stripped:
\* unset or empty, blank, one id, and two ids around a blank entry
RawAllowLists ==
    { <<>>, <<"">>, <<"ou_alice">>, <<"ou_alice", "", "ou_bob">> }

\* authorization_middleware, line 348: the set of the non-empty entries
allowed_set_of(entries) == {entries[i] : i \in DOMAIN entries} \ {""}

\* create_time of a delivery, relative to the clock: just created, exactly
\* at the staleness threshold, and one millisecond beyond it
CreateAges == {0, STALE_SECONDS * MsPerSecond, STALE_SECONDS * MsPerSecond + 1}

\* The values the clock can take
RECURSIVE ClockValues(_)
ClockValues(n) ==
    IF n = 0 THEN {0}
    ELSE LET earlier == ClockValues(n - 1)
         IN earlier \cup {v + d : v \in earlier, d \in TickSteps}

\* create_time of a delivery, relative to the clock: every age that lets an
\* event created at or before any instant of the clock arrive at any later
\* instant, and an event stamped by a sender whose clock runs ahead by a
\* little more than the TTL
ReplayAges == ClockValues(MaxTicks) \cup {-(MESSAGE_CACHE_TTL * MsPerSecond + 1)}

\* ------------------------------------------------------------------- state
VARIABLES
    now,                    \* time.time() in milliseconds
    ticks,                  \* number of clock advances so far
    PROCESSED_MESSAGES,     \* lark_bot._PROCESSED_MESSAGES: key -> timestamp
    CHECK_EXECUTION_LOCK,   \* check_handler._CHECK_EXECUTION_LOCK
    fetch_threads,          \* worker threads running fetch_multiple_balances
    authorized_users,       \* LARK_AUTHORIZED_USERS
    handlers,               \* HandlerRegistry.handlers: name -> handler
    aliases,                \* HandlerRegistry.aliases: alias -> name
    middleware,             \* HandlerRegistry.middleware
    env,                    \* the surroundings of this run: what the sink
                            \* can do and what the transport delivers
    user_commands,          \* RateLimiter.user_commands: sender -> timestamps
    task,                   \* the webhook tasks in flight
    deliveries,             \* number of webhook deliveries so far
    last,                   \* the latest delivery and what became of it
    passes,                 \* the deliveries that passed the duplicate filter
    reg_log,                \* the calls of register and unregister so far:
                            \* how many, the latest, and what was registered
    parse_call,             \* the text given to the command parser and what
                            \* is_command and parse_command returned for it
    base_handler,           \* a BaseHandler object: its argument bounds, its
                            \* enabled flag and counters, and what its latest
                            \* call of handle did
    session                 \* api_client.session: None, an open ClientSession
                            \* or a closed one

vars == <<now, ticks, PROCESSED_MESSAGES, CHECK_EXECUTION_LOCK, fetch_threads,
          authorized_users, handlers, aliases, middleware, env,
          user_commands, task, deliveries, last, passes, reg_log, parse_call,
                   base_handler, session>>

\* dict assignment d[k] = v
DictSet(d, k, v) == [x \in DOMAIN d \cup {k} |-> IF x = k THEN v ELSE d[x]]

\* ---------------------------------------------------------- dedup cache
event_key(event_id) == <<"event", event_id>>
message_key(message_id) == <<"msg", message_id>>

\* cleanup_message_cache that evicts nothing
cleanup_message_cache_keep(cache, current_time) == cache

\* cleanup_message_cache: the cache without its expired entries
cleanup_message_cache(cache, current_time) ==
    LET expired_keys == {k \in DOMAIN cache :
                            current_time - cache[k] > MESSAGE_CACHE_TTL * MsPerSecond}
    IN [k \in DOMAIN cache \ expired_keys |-> cache[k]]

\* is_duplicate_message without its membership test
is_duplicate_message_blind(cache, event_id, message_id, current_time) ==
    <<FALSE, DictSet(DictSet(cleanup_message_cache(cache, current_time),
                             event_key(event_id), current_time),
                     message_key(message_id), current_time)>>

\* is_duplicate_message that restarts the TTL of the keys it finds
is_duplicate_message_refresh(cache, event_id, message_id, current_time) ==
    LET cleaned == cleanup_message_cache(cache, current_time)
        keys == {event_key(event_id), message_key(message_id)}
    IN <<keys \cap DOMAIN cleaned # {},
         [k \in DOMAIN cleaned \cup keys |->
             IF k \in keys THEN current_time ELSE cleaned[k]]>>

\* is_duplicate_message that tests the keys and leaves the insert to a later
\* step of the task
is_duplicate_message_test_only(cache, event_id, message_id, current_time) ==
    LET cleaned == cleanup_message_cache(cache, current_time) IN
    <<event_key(event_id) \in DOMAIN cleaned \/ message_key(message_id) \in DOMAIN cleaned,
      cleaned>>

\* is_duplicate_message: <<result, cache afterwards>>
is_duplicate_message(cache, event_id, message_id, current_time) ==
    LET cleaned == cleanup_message_cache(cache, current_time) IN
    IF event_key(event_id) \in DOMAIN cleaned \/ message_key(message_id) \in DOMAIN cleaned
    THEN <<TRUE, cleaned>>
    ELSE <<FALSE,
           [k \in DOMAIN cleaned \cup {event_key(event_id), message_key(message_id)} |->
               IF k \in {event_key(event_id), message_key(message_id)}
               THEN current_time ELSE cleaned[k]]>>

\* the staleness test with >= for >
is_too_old_inclusive(current_time_ms, message_create_time) ==
    current_time_ms - message_create_time >= STALE_SECONDS * MsPerSecond

\* message_age_seconds > 60, with message_age_seconds = (now_ms - create_time) / 1000
is_too_old(current_time_ms, message_create_time) ==
    current_time_ms - message_create_time > STALE_SECONDS * MsPerSecond

\* --------------------------------------------------------------- registry
Name(str) ==
    CASE str = "check"   -> <<"c", "h", "e", "c", "k">>
      [] str = "balance" -> <<"b", "a", "l", "a", "n", "c", "e">>
      [] str = "bal"     -> <<"b", "a", "l">>
      [] str = "help"    -> <<"h", "e", "l", "p">>
      [] str = "h"       -> <<"h">>
      [] str = "?"       -> <<"?">>
      [] str = "Check"   -> <<"C", "h", "e", "c", "k">>
      [] str = "CHECK"   -> <<"C", "H", "E", "C", "K">>
      [] str = "Bal"     -> <<"B", "a", "l">>
      [] str = "BAL"     -> <<"B", "A", "L">>
      [] str = "Cash"    -> <<"C", "a", "s", "h">>
      [] str = "cash"    -> <<"c", "a", "s", "h">>
      [] str = "nope"    -> <<"n", "o", "p", "e">>

\* Two of the handler objects lark_bot.startup_event constructs (name and
\* aliases as set in each __init__), in the order it registers them: the
\* lock-bearing CheckHandler, and HelpHandler for the handlers without a lock.
CheckHandler == [cls |-> "CheckHandler", name |-> Name("check"),
                 aliases |-> <<Name("balance"), Name("bal")>>]
HelpHandler  == [cls |-> "HelpHandler", name |-> Name("help"),
                 aliases |-> <<Name("h"), Name("?")>>]

StartupHandlers == <<CheckHandler, HelpHandler>>

\* Handler objects offered to register: the two above, one that overwrites
\* the name check (spelled with a capital) and declares another alias, one
\* whose name is an alias of check and whose alias is the name check, and one
\* of another name that declares an alias check declares too.
CheckHandlerB == [cls |-> "CheckHandlerB", name |-> Name("Check"),
                  aliases |-> <<Name("Cash")>>]
BalHandler    == [cls |-> "BalHandler", name |-> Name("bal"),
                  aliases |-> <<Name("check")>>]

CashHandler   == [cls |-> "CashHandler", name |-> Name("cash"),
                  aliases |-> <<Name("bal")>>]

HandlerPool == {CheckHandler, CheckHandlerB, HelpHandler, BalHandler, CashHandler}

\* Names passed to unregister and tokens passed to get_handler
UnregisterNames == {Name("check"), Name("CHECK"), Name("help"), Name("bal")}

Tokens ==
    {Name("check"), Name("Check"), Name("CHECK"), Name("balance"), Name("bal"),
     Name("Bal"), Name("BAL"), Name("cash"), Name("Cash"), Name("help"),
     Name("h"), Name("?"), Name("nope")}

EmptyRegistry == [handlers |-> <<>>, aliases |-> <<>>]

RECURSIVE SetAliases(_, _, _)
SetAliases(al, handler_aliases, command_name) ==
    IF handler_aliases = <<>> THEN al
    ELSE SetAliases(DictSet(al, Lower(Head(handler_aliases)), command_name),
                    Tail(handler_aliases), command_name)

\* HandlerRegistry.register
register(reg, handler) ==
    LET command_name == Lower(handler.name) IN
    [handlers |-> DictSet(reg.handlers, command_name, handler),
     aliases  |-> SetAliases(reg.aliases, handler.aliases, command_name)]

RECURSIVE RegisterAll(_, _)
RegisterAll(reg, hs) ==
    IF hs = <<>> THEN reg ELSE RegisterAll(register(reg, Head(hs)), Tail(hs))

\* del d[k]
DictDel(d, k) == [x \in DOMAIN d \ {k} |-> d[x]]

RECURSIVE DelAliases(_, _)
DelAliases(al, handler_aliases) ==
    IF handler_aliases = <<>> THEN al
    ELSE LET alias_lower == Lower(Head(handler_aliases)) IN
         DelAliases(IF alias_lower \in DOMAIN al THEN DictDel(al, alias_lower) ELSE al,
                    Tail(handler_aliases))

\* HandlerRegistry.unregister: what it returns and the tables it leaves
unregister(reg, command_name) ==
    LET name == Lower(command_name) IN
    IF name \notin DOMAIN reg.handlers
    THEN [returned |-> FALSE, handlers |-> reg.handlers, aliases |-> reg.aliases]
    ELSE [returned |-> TRUE,
          handlers |-> DictDel(reg.handlers, name),
          aliases  |-> DelAliases(reg.aliases, reg.handlers[name].aliases)]

None == [cls |-> "None"]

\* a lookup that follows an alias to another alias
get_handler_chained(hs, al, command_name) ==
    LET lowered == Lower(command_name) IN
    IF lowered \in DOMAIN hs THEN hs[lowered]
    ELSE IF lowered \in DOMAIN al
         THEN (IF al[lowered] \in DOMAIN hs THEN hs[al[lowered]]
               ELSE IF al[lowered] \in DOMAIN al /\ al[al[lowered]] \in DOMAIN hs
                    THEN hs[al[al[lowered]]] ELSE None)
         ELSE None

\* HandlerRegistry.get_handler
get_handler(hs, al, command_name) ==
    LET lowered == Lower(command_name) IN
    IF lowered \in DOMAIN hs THEN hs[lowered]
    ELSE IF lowered \in DOMAIN al
         THEN (IF al[lowered] \in DOMAIN hs THEN hs[al[lowered]] ELSE None)
         ELSE None

\* an authorization predicate without the open mode
is_authorized_closed(allowed_set, sender_id) == sender_id \in allowed_set

\* authorization_middleware's decision: an empty allow-list allows everyone
is_authorized(allowed_set, sender_id) ==
    IF allowed_set = {} THEN TRUE ELSE sender_id \in allowed_set

\* The middleware chains a registry is configured with: the one
\* lark_bot.startup_event installs, the same followed by a RateLimiter, and
\* one that starts with a predicate of unspecified behaviour.
MiddlewareChains ==
    { <<"authorization">>, <<"authorization", "rate_limit">>,
      <<"custom", "authorization">> }

\* ------------------------------------------------------------------- tasks
\* What became of the delivery a task works for, in the history of the
\* deliveries (kept where env.history is set)
SetFate(ps, i, fate) == IF i \in DOMAIN ps THEN [ps EXCEPT ![i].fate = fate] ELSE ps

\* The timestamp under which the rate limiter accepted the delivery, in the
\* same history
SetAccepted(ps, i, stamp) ==
    IF i \in DOMAIN ps THEN [ps EXCEPT ![i].accepted_at = stamp] ELSE ps

IdleTask ==
    [pc |-> "idle", hidx |-> 0, sender |-> "", command |-> <<>>, mwi |-> 0,
     cls |-> "None", result |-> "none", handler_calls |-> 0,
     holds_lock |-> FALSE, busy |-> FALSE, via |-> "", handler_sent |-> FALSE,
     resp |-> <<>>, listing |-> <<>>, own_session |-> FALSE]

NoDelivery ==
    [event_id |-> "", message_id |-> "", age |-> 0, verdict |-> "none",
     sender_type |-> "", thread_id |-> "", after_stale |-> FALSE]

\* max_args = None: no upper bound on the number of arguments
NoMaxArgs == -1

\* A handler as BaseHandler.__init__ leaves it, for one choice of its
\* argument bounds; in every specification but the one of the handler itself
\* the bounds are the defaults.
NewBaseHandler(min_args, max_args) ==
    [min_args |-> min_args, max_args |-> max_args, enabled |-> TRUE,
     call_count |-> 0, error_count |-> 0,
     calls |-> 0, args |-> 0, executed |-> FALSE, sent |-> <<>>,
     returned |-> "none"]

BaseHandlers == {NewBaseHandler(0, NoMaxArgs)}

NotParsed ==
    [calls |-> 0, content |-> <<>>, is_command |-> FALSE, command |-> <<>>,
     args |-> <<>>]

NoRegistryCall ==
    [calls |-> 0, op |-> "none", name |-> <<>>, returned |-> FALSE,
     registered |-> {}]

InitBase(chains, envs, allow_sets, reg) ==
    /\ now = 0
    /\ ticks = 0
    /\ PROCESSED_MESSAGES = <<>>
    /\ CHECK_EXECUTION_LOCK = FALSE
    /\ fetch_threads = 0
    /\ authorized_users \in allow_sets
    /\ handlers = reg.handlers
    /\ aliases = reg.aliases
    /\ middleware \in chains
    /\ env \in envs
    /\ user_commands = <<>>
    /\ task = [t \in Tasks |-> IdleTask]
    /\ deliveries = 0
    /\ last = NoDelivery
    /\ passes = <<>>
    /\ reg_log = NoRegistryCall
    /\ parse_call = NotParsed
    /\ base_handler \in BaseHandlers
    /\ session = "None"

\* The state once lark_bot.startup_event has registered its handlers
InitFor(chains, envs, allow_sets) ==
    InitBase(chains, envs, allow_sets, RegisterAll(EmptyRegistry, StartupHandlers))

InitWith(chains, envs) == InitFor(chains, envs, AuthorizedUserSets)

\* ------------------------------------------------------- registry calls
RegistryFrame ==
    UNCHANGED <<now, ticks, PROCESSED_MESSAGES, CHECK_EXECUTION_LOCK,
                fetch_threads, authorized_users, middleware, env,
                user_commands, task, deliveries, last, passes, parse_call,
                base_handler, session>>

\* registry.register(handler)
Register(handler) ==
    /\ reg_log.calls < MaxRegistryCalls
    /\ LET reg == register([handlers |-> handlers, aliases |-> aliases], handler) IN
         /\ handlers' = reg.handlers
         /\ aliases' = reg.aliases
    /\ reg_log' = [calls |-> reg_log.calls + 1, op |-> "register",
                   name |-> Lower(handler.name), returned |-> FALSE,
                   registered |-> reg_log.registered \cup {handler}]
    /\ RegistryFrame

\* registry.unregister(command_name)
Unregister(command_name) ==
    /\ reg_log.calls < MaxRegistryCalls
    /\ LET out == unregister([handlers |-> handlers, aliases |-> aliases],
                             command_name) IN
         /\ handlers' = out.handlers
         /\ aliases' = out.aliases
         /\ reg_log' = [calls |-> reg_log.calls + 1, op |-> "unregister",
                        name |-> Lower(command_name), returned |-> out.returned,
                        registered |-> reg_log.registered]
    /\ RegistryFrame

\* The history of deliveries keeps the create_time of each one only where
\* the surroundings ask for it.
KeepsCreateTime(e) == "create_times" \in DOMAIN e

\* The wall clock advances.
Tick ==
    /\ ticks < MaxTicks
    /\ \E d \in TickSteps : now' = now + d
    /\ ticks' = ticks + 1
    /\ UNCHANGED <<PROCESSED_MESSAGES, CHECK_EXECUTION_LOCK, fetch_threads,
                   authorized_users, handlers, aliases, middleware, env,
                   user_commands, task, deliveries, last, passes, reg_log, parse_call,
                   base_handler, session>>

\* process_message_event, from its entry to its first suspension point (the
\* entry of `async with api_client`) or to the return that drops the event.
process_message_event(t, event_id, message_id, message_create_time, p) ==
    /\ task[t].pc = "idle"
    /\ deliveries < MaxDeliveries
    /\ LET dup == is_duplicate_message(PROCESSED_MESSAGES, event_id, message_id, now)
           parsed == parse_command(p.content)
           verdict ==
               IF is_too_old(now, message_create_time) THEN "stale"
               ELSE IF dup[1] THEN "duplicate"
               ELSE IF is_from_bot(p.sender_type) THEN "bot"
               ELSE IF ~is_command(p.content) THEN "not_command"
               ELSE IF ~is_topic_message(p.thread_id) THEN "off_topic"
               ELSE "accepted"
       IN
         /\ PROCESSED_MESSAGES' =
               IF verdict = "stale" THEN PROCESSED_MESSAGES ELSE dup[2]
         /\ deliveries' = deliveries + 1
         /\ last' = [event_id |-> event_id, message_id |-> message_id,
                     age |-> now - message_create_time, verdict |-> verdict,
                     sender_type |-> p.sender_type, thread_id |-> p.thread_id,
                     after_stale |-> /\ last.verdict = "stale"
                                     /\ last.event_id = event_id
                                     /\ last.message_id = message_id]
         /\ passes' = IF ~env.history \/ verdict \in {"stale", "duplicate"} THEN passes
                      ELSE Append(passes,
                             [event_id |-> event_id, message_id |-> message_id,
                              at |-> now,
                              created |-> IF KeepsCreateTime(env)
                                          THEN message_create_time ELSE 0,
                              sender |-> p.sender, accepted_at |-> -1,
                              fate |-> IF verdict = "accepted" THEN "pending"
                                       ELSE "gated"])
         /\ task' = [task EXCEPT ![t] =
               IF verdict = "accepted"
               THEN [IdleTask EXCEPT !.pc = "aenter", !.hidx = Len(passes'),
                                     !.sender = p.sender, !.command = parsed[1]]
               ELSE IdleTask]
    /\ UNCHANGED <<now, ticks, CHECK_EXECUTION_LOCK, fetch_threads,
                   authorized_users, handlers, aliases, middleware, env,
                   user_commands, reg_log, parse_call,
                   base_handler, session>>

\* The transport delivers an event; the server runs it as a new task (the
\* free task slot of lowest index: slots are interchangeable).
Deliver ==
    \E t \in 1..env.concurrency, ids \in IdsOffered(env.replay, deliveries),
       p \in env.profiles,
       age \in env.ages :
        /\ \A u \in Tasks : u < t => task[u].pc # "idle"
        /\ process_message_event(t, ids[1], ids[2], now - age, p)

\* ------------------------------------------------------------ message sink
\* What one call of context.topic_manager.send_command_response can do: post
\* the message (returns True), swallow a transport error (returns False), or
\* raise to its caller (a TypeError for an argument the sink does not take,
\* or any error of a sink that does not catch its own).
SinkOutcomes == {"delivered", "failed", "raised"}

\* task[t].resp: the sends the dispatcher and the middleware make on their
\* own account for the event, in order, with their outcomes.  Of the cards
\* and fallbacks of a handler, task[t].handler_sent keeps that one was made.
send_command_response(t, by, kind, out) ==
    Append(task[t].resp, [by |-> by, kind |-> kind, out |-> out])

SessionFrame == UNCHANGED <<now, ticks, PROCESSED_MESSAGES, authorized_users,
                            handlers, aliases, middleware, env, reg_log,
                            parse_call, base_handler>>

Frame == SessionFrame /\ UNCHANGED session

\* The session of the API client is followed only where the surroundings
\* ask for it; elsewhere it is left out of the state.
FollowsSession(e) == "session" \in DOMAIN e

\* LarkAPIClient.__aenter__, line 32: self.session = aiohttp.ClientSession().
\* task[u].own_session tells whether api_client.session is still the object
\* that task u's own entry created.
open_session(t) ==
    IF FollowsSession(env)
    THEN [u \in Tasks |-> [task[u] EXCEPT !.own_session = (u = t)]]
    ELSE task

\* LarkAPIClient.__aexit__, lines 37-39: close whatever self.session is now
close_session(s) == IF s = "None" THEN s ELSE "closed"

\* `async with api_client`: LarkAPIClient.__aenter__ opens the session and
\* fetches the access token, which raises on an HTTP or API error; the
\* exception is caught by process_message_event's own except clause.
AEnter(t) ==
    /\ task[t].pc = "aenter"
    /\ \E ok \in BOOLEAN :
          /\ task' = [open_session(t) EXCEPT ![t].pc =
                         IF ~ok THEN "failed"
                         ELSE IF middleware = <<>> THEN "lookup" ELSE "middleware",
                      ![t].mwi = 1]
          /\ passes' = IF ok THEN passes
                       ELSE SetFate(passes, task[t].hidx, "session_error")
    /\ session' = IF FollowsSession(env) THEN "open" ELSE session
    /\ SessionFrame
    /\ UNCHANGED <<CHECK_EXECUTION_LOCK, fetch_threads, user_commands, deliveries, last>>

\* a prune that keeps a timestamp exactly time_window old
prune_inclusive(stamps, current) ==
    SelectSeq(stamps, LAMBDA ts : ts >= current - RATE_TIME_WINDOW * MsPerSecond)

\* RateLimiter.rate_limit_middleware, up to its decision: the sender's
\* timestamps inside the window
prune(stamps, current) ==
    SelectSeq(stamps, LAMBDA ts : ts > current - RATE_TIME_WINDOW * MsPerSecond)

user_stamps(uc, user_id) == IF user_id \in DOMAIN uc THEN uc[user_id] ELSE <<>>

\* a limiter that timestamps the commands it denies too
stamps_after_denial_stamped(kept, current) == Append(kept, current)

\* RateLimiter.rate_limit_middleware returns False before its append: the
\* sender's list stays as pruned
stamps_after_denial(kept, current) == kept

\* a loop that goes on to the next predicate after one returned False or
\* raised
halt_skip(t) ==
    [task EXCEPT ![t].pc = IF task[t].mwi = Len(middleware) THEN "lookup"
                           ELSE "middleware",
                 ![t].mwi = task[t].mwi + 1]

\* execute_command, lines 111-116: return False out of the loop when a
\* predicate returned False or raised
halt(t) == [task EXCEPT ![t].pc = "aexit", ![t].result = "false"]

\* execute_command's loop over self.middleware: one predicate per step.  A
\* predicate that allows runs to completion without suspending; one that
\* denies suspends on the send of its denial card.
RunMiddleware(t) ==
    /\ task[t].pc = "middleware"
    /\ LET m == middleware[task[t].mwi]
           next == IF task[t].mwi = Len(middleware) THEN "lookup" ELSE "middleware"
           pass == [task EXCEPT ![t].pc = next, ![t].mwi = task[t].mwi + 1]
           block == halt(t)
           blocked == SetFate(passes, task[t].hidx, "blocked")
       IN
         CASE m = "authorization" ->
                /\ IF is_authorized(authorized_users, task[t].sender)
                   THEN task' = pass /\ passes' = passes
                   ELSE /\ task' = [task EXCEPT ![t].pc = "mw_send_denied"]
                        /\ passes' = blocked
                /\ UNCHANGED user_commands
           [] m = "rate_limit" ->
                LET kept == prune(user_stamps(user_commands, task[t].sender), now) IN
                IF Len(kept) >= MaxCommands
                THEN /\ user_commands' = DictSet(user_commands, task[t].sender,
                                               stamps_after_denial(kept, now))
                     /\ task' = [task EXCEPT ![t].pc = "mw_send_rate"]
                     /\ passes' = blocked
                ELSE /\ user_commands' = DictSet(user_commands, task[t].sender, Append(kept, now))
                     /\ task' = pass
                     /\ passes' = SetAccepted(passes, task[t].hidx, now)
           [] m = "custom" ->
                /\ \E outcome \in {"allow", "deny", "raise"} :
                      IF outcome = "allow" THEN task' = pass /\ passes' = passes
                      ELSE task' = block /\ passes' = blocked
                /\ UNCHANGED user_commands
    /\ Frame
    /\ UNCHANGED <<CHECK_EXECUTION_LOCK, fetch_threads, deliveries, last>>

\* a loop over the middleware that ignores what a predicate returns
after_denial_continue(t, resp) ==
    [task EXCEPT ![t].resp = resp, ![t].pc = "lookup"]

\* a denial after which the command is looked up all the same
after_denial_then_lookup(t, resp) ==
    [task EXCEPT ![t].resp = resp, ![t].pc = "unknown_card", ![t].result = "false"]

\* execute_command, lines 111-113: a predicate returned False
after_denial(t, resp) ==
    [task EXCEPT ![t].resp = resp, ![t].pc = "aexit", ![t].result = "false"]

\* The denying predicate sends its card inside try/except and returns False;
\* execute_command then returns False.
MiddlewareSend(t) ==
    /\ task[t].pc \in {"mw_send_denied", "mw_send_rate"}
    /\ \E out \in env.sink :
          task' = after_denial(t, send_command_response(t, "middleware",
                              IF task[t].pc = "mw_send_denied" THEN "access_denied"
                              ELSE "rate_limited", out))
    /\ Frame
    /\ UNCHANGED <<CHECK_EXECUTION_LOCK, fetch_threads, user_commands, deliveries, last, passes>>

\* ---------------------------------------------------------------- handlers
\* What the synchronous prefix of CheckHandler.handle's try block decides
\* (list_wallets, parse_check_arguments, resolve_wallets_to_check): which card
\* it sends first, or an exception raised before any send.
CheckBranches == {"chk_no_wallets", "chk_not_found", "chk_checking", "chk_except"}

\* The same for HelpHandler.handle: its card, or an exception before it.
HandlerBranches == {"h_card", "h_except"}

\* a lock test that never finds the lock held
check_lock_is_held_never(lock) == FALSE

\* CheckHandler.handle, line 110: the test of the lock
check_lock_is_held(lock) == lock

\* the unlock as the last statement of the try block in place of a finally
\* clause: skipped when the block raises
finally_unlock_on_return(lock, raised) == IF raised THEN lock ELSE FALSE

\* CheckHandler.handle, lines 206-208: the lock after the finally clause,
\* whether the try block returned or raised
finally_unlock(lock, raised) == FALSE

\* execute_command treating a False return like an exception
Returned_notify(t, value) ==
    [task EXCEPT ![t].pc = IF value THEN "aexit" ELSE "error_card",
                 ![t].result = IF value THEN "true" ELSE "false",
                 ![t].holds_lock = FALSE,
                 ![t].via = task[t].pc,
                 ![t].handler_sent = TRUE]

\* handler.handle returns `value` to execute_command, which logs and returns
\* it (lines 123-129).
Returned(t, value) ==
    [task EXCEPT ![t].pc = "aexit",
                 ![t].result = IF value THEN "true" ELSE "false",
                 ![t].holds_lock = FALSE,
                 ![t].via = task[t].pc,
                 ![t].handler_sent = TRUE]

\* an except clause that returns False without calling _send_error_message
Raised_silent(t) ==
    [task EXCEPT ![t].pc = "aexit", ![t].result = "false",
                 ![t].holds_lock = FALSE,
                 ![t].via = "exception", ![t].handler_sent = TRUE]

\* handler.handle raises into execute_command's except clause (lines
\* 130-132), which calls _send_error_message.
Raised(t) ==
    [task EXCEPT ![t].pc = "error_card", ![t].holds_lock = FALSE,
                 ![t].via = "exception", ![t].handler_sent = TRUE]

\* A handler's own send was made and raised: control goes to its except clause
ToExcept(t, pc) == [task EXCEPT ![t].pc = pc, ![t].handler_sent = TRUE]

\* execute_command after the middleware: get_handler, then handler.handle up
\* to its first suspension point.
Lookup(t) ==
    /\ task[t].pc = "lookup"
    /\ LET handler == get_handler(handlers, aliases, task[t].command) IN
         IF handler = None
         THEN /\ task' = [task EXCEPT ![t].pc = "unknown_card"]
              /\ passes' = SetFate(passes, task[t].hidx, "unknown")
              /\ UNCHANGED CHECK_EXECUTION_LOCK
         ELSE /\ passes' = SetFate(passes, task[t].hidx, "handled")
              /\ IF handler.cls = "CheckHandler"
                 THEN IF check_lock_is_held(CHECK_EXECUTION_LOCK)
                      THEN /\ task' = [task EXCEPT ![t].pc = "aexit",
                                          ![t].cls = handler.cls,
                                          ![t].handler_calls = @ + 1,
                                          ![t].busy = TRUE,
                                          ![t].result = "false"]
                           /\ UNCHANGED CHECK_EXECUTION_LOCK
                      ELSE /\ CHECK_EXECUTION_LOCK' = TRUE
                           /\ \E b \in CheckBranches :
                                 task' = [task EXCEPT ![t].pc = b,
                                             ![t].cls = handler.cls,
                                             ![t].handler_calls = @ + 1,
                                             ![t].holds_lock = TRUE]
                 ELSE /\ \E b \in HandlerBranches :
                            task' = [task EXCEPT ![t].pc = b,
                                        ![t].cls = handler.cls,
                                        ![t].handler_calls = @ + 1]
                      /\ UNCHANGED CHECK_EXECUTION_LOCK
    /\ Frame
    /\ UNCHANGED <<fetch_threads, user_commands, deliveries, last>>

\* The value CheckHandler.handle returns after each of its final cards
CheckReturn ==
    [chk_no_wallets |-> TRUE, chk_not_found |-> FALSE, chk_timeout |-> FALSE,
     chk_fetch_error |-> FALSE, chk_table |-> TRUE]

\* CheckHandler.handle: a card send followed by return; a send that raises
\* goes to the except clause.
CheckSendAndReturn(t) ==
    /\ task[t].pc \in DOMAIN CheckReturn
    /\ \E out \in env.sink :
         IF out = "raised"
         THEN /\ task' = ToExcept(t, "chk_except")
              /\ UNCHANGED CHECK_EXECUTION_LOCK
         ELSE /\ task' = Returned(t, CheckReturn[task[t].pc])
              /\ CHECK_EXECUTION_LOCK' = finally_unlock(CHECK_EXECUTION_LOCK, FALSE)
    /\ Frame
    /\ UNCHANGED <<fetch_threads, user_commands, deliveries, last, passes>>

\* CheckHandler.handle: the "checking..." card, then asyncio.to_thread starts
\* the worker thread and wait_for suspends on it.
CheckSendChecking(t) ==
    /\ task[t].pc = "chk_checking"
    /\ \E out \in env.sink :
         IF out = "raised"
         THEN /\ task' = ToExcept(t, "chk_except")
              /\ UNCHANGED fetch_threads
         ELSE /\ task' = [task EXCEPT ![t].pc = "chk_fetch", ![t].handler_sent = TRUE]
              /\ fetch_threads' = fetch_threads + 1
    /\ Frame
    /\ UNCHANGED <<CHECK_EXECUTION_LOCK, user_commands, deliveries, last, passes>>

\* CheckHandler.handle resumes from wait_for: the thread returned balances,
\* returned no balance at all, raised, or was still running after 30 seconds
\* (the thread is not stopped by the timeout).
CheckFetch(t) ==
    /\ task[t].pc = "chk_fetch"
    /\ \E outcome \in {"balances", "all_none", "raised", "timeout"} :
         /\ task' = [task EXCEPT ![t].pc =
                        CASE outcome = "balances" -> "chk_table"
                          [] outcome = "all_none" -> "chk_fetch_error"
                          [] outcome = "raised"   -> "chk_except"
                          [] outcome = "timeout"  -> "chk_timeout"]
         /\ fetch_threads' = IF outcome = "timeout" THEN fetch_threads
                             ELSE fetch_threads - 1
    /\ Frame
    /\ UNCHANGED <<CHECK_EXECUTION_LOCK, user_commands, deliveries, last, passes>>

\* A worker thread abandoned by a timeout finishes.
FetchThreadExit ==
    /\ fetch_threads > Cardinality({t \in Tasks : task[t].pc = "chk_fetch"})
    /\ fetch_threads' = fetch_threads - 1
    /\ Frame
    /\ UNCHANGED <<CHECK_EXECUTION_LOCK, user_commands, task, deliveries, last, passes>>

\* CheckHandler.handle's except clause: the plain-text fallback, then return
\* False; a fallback that raises leaves handle by exception.  Either way the
\* finally clause runs.
CheckExcept(t) ==
    /\ task[t].pc = "chk_except"
    /\ \E out \in env.sink :
         /\ task' = IF out = "raised" THEN Raised(t) ELSE Returned(t, FALSE)
         /\ CHECK_EXECUTION_LOCK' = finally_unlock(CHECK_EXECUTION_LOCK, out = "raised")
    /\ Frame
    /\ UNCHANGED <<fetch_threads, user_commands, deliveries, last, passes>>

\* HelpHandler.handle: the card send followed by return True
HandlerSendAndReturn(t) ==
    /\ task[t].pc = "h_card"
    /\ \E out \in env.sink :
         task' = IF out = "raised" THEN ToExcept(t, "h_except") ELSE Returned(t, TRUE)
    /\ Frame
    /\ UNCHANGED <<CHECK_EXECUTION_LOCK, fetch_threads, user_commands, deliveries, last, passes>>

\* HelpHandler.handle: the except clause, the plain-text fallback and
\* return False
HandlerExcept(t) ==
    /\ task[t].pc = "h_except"
    /\ \E out \in env.sink :
         task' = IF out = "raised" THEN Raised(t) ELSE Returned(t, FALSE)
    /\ Frame
    /\ UNCHANGED <<CHECK_EXECUTION_LOCK, fetch_threads, user_commands, deliveries, last, passes>>

\* -------------------------------------------- dispatcher's own notifications
\* The characters of command names in code point order, as str comparison
\* orders them
CodePoints ==
    <<"?", "A", "B", "C", "D", "E", "H", "K", "L", "N", "O", "P",
      "a", "b", "c", "d", "e", "f", "g", "h", "i", "j", "k", "l", "m",
      "n", "o", "p", "q", "r", "s", "t", "u", "v", "w", "x", "y", "z">>

ord(c) == CHOOSE i \in DOMAIN CodePoints : CodePoints[i] = c

\* a < b for two str
RECURSIVE StrLess(_, _)
StrLess(a, b) ==
    IF b = <<>> THEN FALSE
    ELSE IF a = <<>> THEN TRUE
    ELSE IF Head(a) = Head(b) THEN StrLess(Tail(a), Tail(b))
    ELSE ord(Head(a)) < ord(Head(b))

\* HandlerRegistry.list_commands: the registered primary names
list_commands(hs) == DOMAIN hs

\* sorted(available_commands)
RECURSIVE sorted(_)
sorted(names) ==
    IF names = {} THEN <<>>
    ELSE LET first == CHOOSE n \in names : \A m \in names \ {n} : StrLess(n, m)
         IN <<first>> \o sorted(names \ {first})

\* the command list in descending order
commands_list_descending(pc, hs) ==
    IF pc \in {"unknown_card", "unknown_text"}
    THEN LET asc == sorted(list_commands(hs))
         IN [i \in 1..Len(asc) |-> asc[Len(asc) + 1 - i]]
    ELSE <<>>

\* The command list the unknown-command card and its plain-text fallback
\* carry (lines 137 and 306); the error notification carries none.
commands_list(pc, hs) ==
    IF pc \in {"unknown_card", "unknown_text"} THEN sorted(list_commands(hs))
    ELSE <<>>

\* _send_unknown_command_message and _send_error_message: the card, and the
\* plain-text fallback when the card send raises; an error of the fallback is
\* logged and swallowed.  execute_command returns False after either.
NotifyCard(t) ==
    /\ task[t].pc \in {"unknown_card", "error_card"}
    /\ \E out \in env.sink :
         LET resp == send_command_response(t, "dispatcher", task[t].pc, out) IN
         task' = IF out = "raised"
                 THEN [task EXCEPT ![t].resp = resp,
                          ![t].listing = commands_list(task[t].pc, handlers),
                          ![t].pc = IF task[t].pc = "unknown_card"
                                    THEN "unknown_text" ELSE "error_text"]
                 ELSE [task EXCEPT ![t].resp = resp, ![t].pc = "aexit",
                                   ![t].listing = commands_list(task[t].pc, handlers),
                                   ![t].result = "false"]
    /\ Frame
    /\ UNCHANGED <<CHECK_EXECUTION_LOCK, fetch_threads, user_commands, deliveries, last, passes>>

\* _send_error_message without the inner try: an error of the fallback
\* leaves execute_command
after_fallback_escape(out) == IF out = "raised" THEN "escaped" ELSE "false"

\* What execute_command returns after the plain-text fallback, lines 324-328
\* and 133 (305-314 and 120 for an unknown command): an error of the
\* fallback is caught
after_fallback(out) == "false"

NotifyText(t) ==
    /\ task[t].pc \in {"unknown_text", "error_text"}
    /\ \E out \in env.sink :
         task' = [task EXCEPT
             ![t].resp = send_command_response(t, "dispatcher", task[t].pc, out),
             ![t].listing = commands_list(task[t].pc, handlers),
             ![t].pc = "aexit", ![t].result = after_fallback(out)]
    /\ Frame
    /\ UNCHANGED <<CHECK_EXECUTION_LOCK, fetch_threads, user_commands, deliveries, last, passes>>

\* LarkAPIClient.__aexit__ closes the session; process_message_event logs
\* the result and returns, which ends the task.  A task whose session entry
\* raised ends in process_message_event's except clause.
AExit(t) ==
    /\ task[t].pc \in {"aexit", "failed"}
    /\ task' = [task EXCEPT ![t] = IdleTask]
    /\ session' = IF task[t].pc = "aexit" THEN close_session(session) ELSE session
    /\ SessionFrame
    /\ UNCHANGED <<CHECK_EXECUTION_LOCK, fetch_threads, user_commands, deliveries, last, passes>>

Dispatch ==
    \/ Deliver
    \/ \E t \in Tasks : AEnter(t)
    \/ \E t \in Tasks : RunMiddleware(t)
    \/ \E t \in Tasks : MiddlewareSend(t)
    \/ \E t \in Tasks : Lookup(t)
    \/ \E t \in Tasks : CheckSendAndReturn(t)
    \/ \E t \in Tasks : CheckSendChecking(t)
    \/ \E t \in Tasks : CheckFetch(t)
    \/ FetchThreadExit
    \/ \E t \in Tasks : CheckExcept(t)
    \/ \E t \in Tasks : HandlerSendAndReturn(t)
    \/ \E t \in Tasks : HandlerExcept(t)
    \/ \E t \in Tasks : NotifyCard(t)
    \/ \E t \in Tasks : NotifyText(t)
    \/ \E t \in Tasks : AExit(t)

\* Concurrent dispatches of the check command, under its name and an alias
\* and from two senders, with every behaviour of the sink, at one instant of
\* the clock.
Init ==
    InitWith({<<"authorization">>},
             {[sink |-> SinkOutcomes, replay |-> FALSE, ages |-> {0},
               profiles |-> CheckProfiles, concurrency |-> NumTasks,
               history |-> FALSE]})

\* With these surroundings no other action is ever enabled.
Next ==
    \/ Deliver
    \/ \E t \in Tasks : AEnter(t)
    \/ \E t \in Tasks : RunMiddleware(t)
    \/ \E t \in Tasks : Lookup(t)
    \/ \E t \in Tasks : CheckSendAndReturn(t)
    \/ \E t \in Tasks : CheckSendChecking(t)
    \/ \E t \in Tasks : CheckFetch(t)
    \/ FetchThreadExit
    \/ \E t \in Tasks : CheckExcept(t)
    \/ \E t \in Tasks : NotifyCard(t)
    \/ \E t \in Tasks : NotifyText(t)
    \/ \E t \in Tasks : AExit(t)

Spec == Init /\ [][Next]_vars

\* The dispatcher as lark_bot.startup_event configures it, with a sink that
\* posts every message, while the clock advances and the transport replays
\* events, one event at a time.
InitTime ==
    InitWith({<<"authorization">>},
             {[sink |-> {"delivered"}, replay |-> TRUE, ages |-> CreateAges,
               profiles |-> HelpProfiles, concurrency |-> 1, history |-> TRUE]})

\* With these surroundings no other action is ever enabled.
NextTime ==
    \/ Tick
    \/ Deliver
    \/ \E t \in Tasks : AEnter(t)
    \/ \E t \in Tasks : RunMiddleware(t)
    \/ \E t \in Tasks : Lookup(t)
    \/ \E t \in Tasks : HandlerSendAndReturn(t)
    \/ \E t \in Tasks : HandlerExcept(t)
    \/ \E t \in Tasks : AExit(t)

SpecTime == InitTime /\ [][NextTime]_vars

\* The dispatcher under every middleware chain, every shape of message and
\* every behaviour of the sink, one event at a time.
InitMw ==
    InitWith(MiddlewareChains,
             {[sink |-> SinkOutcomes, replay |-> FALSE, ages |-> {0},
               profiles |-> AllProfiles, concurrency |-> 1, history |-> TRUE]})

SpecMw == InitMw /\ [][Dispatch]_vars

\* The dispatcher as lark_bot.startup_event configures it, under every value
\* of the allow-list, one event at a time.
InitAuth ==
    InitFor({<<"authorization">>},
            {[sink |-> SinkOutcomes, replay |-> FALSE, ages |-> {0},
              profiles |-> AllProfiles, concurrency |-> 1, history |-> TRUE]},
            {allowed_set_of(raw) : raw \in RawAllowLists})

SpecAuth == InitAuth /\ [][Dispatch]_vars

\* A registry with a RateLimiter behind the authorization predicate, with a
\* sink that posts every message, while the clock advances, one event at a
\* time.
InitRate ==
    InitWith({<<"authorization", "rate_limit">>},
             {[sink |-> {"delivered"}, replay |-> FALSE, ages |-> {0},
               profiles |-> RateProfiles, concurrency |-> 1, history |-> TRUE]})

\* With these surroundings no other action is ever enabled.
NextRate ==
    \/ Tick
    \/ Deliver
    \/ \E t \in Tasks : AEnter(t)
    \/ \E t \in Tasks : RunMiddleware(t)
    \/ \E t \in Tasks : MiddlewareSend(t)
    \/ \E t \in Tasks : Lookup(t)
    \/ \E t \in Tasks : HandlerSendAndReturn(t)
    \/ \E t \in Tasks : HandlerExcept(t)
    \/ \E t \in Tasks : AExit(t)

SpecRate == InitRate /\ [][NextRate]_vars

\* The dispatcher as lark_bot.startup_event configures it, with an allow-list
\* or without one and with a sink that posts every message, under events of
\* every sender type, one event at a time.
InitSender ==
    InitFor({<<"authorization">>},
            {[sink |-> {"delivered"}, replay |-> FALSE, ages |-> {0},
              profiles |-> SenderProfiles, concurrency |-> 1, history |-> TRUE]},
            {{}, {"ou_alice", "ou_bob"}})

\* With these surroundings no other action is ever enabled.
NextSender ==
    \/ Deliver
    \/ \E t \in Tasks : AEnter(t)
    \/ \E t \in Tasks : RunMiddleware(t)
    \/ \E t \in Tasks : MiddlewareSend(t)
    \/ \E t \in Tasks : Lookup(t)
    \/ \E t \in Tasks : HandlerSendAndReturn(t)
    \/ \E t \in Tasks : HandlerExcept(t)
    \/ \E t \in Tasks : AExit(t)

SpecSender == InitSender /\ [][NextSender]_vars

\* The characters message texts are made of here: the prefix, whitespace, a
\* lowercase and an uppercase letter
ContentChars == {"/", " ", "a", "B"}

\* Every text of at most MaxContentLen characters
Contents == UNION {[1..n -> ContentChars] : n \in 0..MaxContentLen}

\* LarkMessageParser.is_command and parse_command, called on one message text
\* as process_message_event and test_command_detection call them
ParseMessage ==
    /\ parse_call.calls = 0
    /\ \E content \in Contents :
         LET result == parse_command(content) IN
         parse_call' = [calls |-> 1, content |-> content,
                    is_command |-> is_command(content),
                    command |-> result[1], args |-> result[2]]
    /\ UNCHANGED <<now, ticks, PROCESSED_MESSAGES, CHECK_EXECUTION_LOCK,
                   fetch_threads, authorized_users, handlers, aliases,
                   middleware, env, user_commands, task, deliveries, last,
                   passes, reg_log, base_handler, session>>

\* A parser from its construction, called on a message text.
InitParse ==
    InitBase({<<>>},
             {[sink |-> {"delivered"}, replay |-> FALSE, ages |-> {0},
               profiles |-> {}, concurrency |-> 1, history |-> FALSE]},
             AuthorizedUserSets, EmptyRegistry)

SpecParse == InitParse /\ [][ParseMessage]_vars

\* The dispatcher as lark_bot.startup_event configures it, with a sink that
\* posts every message, under commands posted in and outside the commands
\* topic, one event at a time.
InitTopic ==
    InitWith({<<"authorization">>},
             {[sink |-> {"delivered"}, replay |-> FALSE, ages |-> {0},
               profiles |-> TopicProfiles, concurrency |-> 1, history |-> TRUE]})

SpecTopic == InitTopic /\ [][NextSender]_vars

\* Concurrent dispatches of the check command and of an unknown command,
\* from a listed and an unlisted sender, fresh or stale, replayed or not,
\* with every behaviour of the sink, at one instant of the clock.
InitStages ==
    InitWith({<<"authorization">>},
             {[sink |-> SinkOutcomes, replay |-> TRUE,
               ages |-> {0, STALE_SECONDS * MsPerSecond + 1},
               profiles |-> StageProfiles, concurrency |-> NumTasks,
               history |-> FALSE]})

\* With these surroundings no other action is ever enabled.
NextStages ==
    \/ Deliver
    \/ \E t \in Tasks : AEnter(t)
    \/ \E t \in Tasks : RunMiddleware(t)
    \/ \E t \in Tasks : MiddlewareSend(t)
    \/ \E t \in Tasks : Lookup(t)
    \/ \E t \in Tasks : CheckSendAndReturn(t)
    \/ \E t \in Tasks : CheckSendChecking(t)
    \/ \E t \in Tasks : CheckFetch(t)
    \/ FetchThreadExit
    \/ \E t \in Tasks : CheckExcept(t)
    \/ \E t \in Tasks : NotifyCard(t)
    \/ \E t \in Tasks : NotifyText(t)
    \/ \E t \in Tasks : AExit(t)

SpecStages == InitStages /\ [][NextStages]_vars

\* Concurrent deliveries of the check command from one sender, replayed at
\* will, with every behaviour of the sink, at one instant of the clock.
InitAtomic ==
    InitWith({<<"authorization">>},
             {[sink |-> SinkOutcomes, replay |-> TRUE, ages |-> {0},
               profiles |-> {p \in CheckProfiles : p.sender = "ou_alice"},
               concurrency |-> NumTasks, history |-> TRUE]})

SpecAtomic == InitAtomic /\ [][Next]_vars

\* BaseHandler._validate_arguments without the test of max_args
validate_arguments_min_only(h, arg_count) == arg_count >= h.min_args

\* BaseHandler._validate_arguments
validate_arguments(h, arg_count) ==
    IF arg_count < h.min_args THEN FALSE
    ELSE IF h.max_args # NoMaxArgs /\ arg_count > h.max_args THEN FALSE
    ELSE TRUE

\* What self.execute(context) does: return True, return False or raise
ExecuteOutcomes == {"true", "false", "raise"}

\* BaseHandler.handle for a context with arg_count arguments.  Each of its
\* notices is one call of the sink inside try/except, so the outcome of the
\* send does not change what handle does next.
handle(h, arg_count, outcome, out) ==
    LET call == [h EXCEPT !.calls = @ + 1, !.args = arg_count] IN
    IF ~h.enabled
    THEN [call EXCEPT !.executed = FALSE, !.returned = "false",
                      !.sent = <<[kind |-> "disabled", out |-> out]>>]
    ELSE IF ~validate_arguments(h, arg_count)
    THEN [call EXCEPT !.executed = FALSE, !.returned = "false",
                      !.sent = <<[kind |-> "usage", out |-> out]>>]
    ELSE [call EXCEPT !.call_count = @ + 1, !.executed = TRUE,
                      !.error_count = IF outcome = "true" THEN @ ELSE @ + 1,
                      !.returned = IF outcome = "true" THEN "true" ELSE "false",
                      !.sent = IF outcome = "raise"
                               THEN <<[kind |-> "error", out |-> out]>> ELSE <<>>]

HandlerFrame ==
    UNCHANGED <<now, ticks, PROCESSED_MESSAGES, CHECK_EXECUTION_LOCK,
                fetch_threads, authorized_users, handlers, aliases,
                middleware, env, user_commands, task, deliveries, last,
                passes, reg_log, parse_call, session>>

\* await handler.handle(context), as test_argument_validation calls it: one
\* call at a time
Handle ==
    /\ base_handler.calls < MaxHandlerCalls
    /\ \E arg_count \in 0..MaxArgs, outcome \in ExecuteOutcomes, out \in SinkOutcomes :
          base_handler' = handle(base_handler, arg_count, outcome, out)
    /\ HandlerFrame

\* handler.set_enabled(enabled)
SetEnabled ==
    /\ base_handler.calls < MaxHandlerCalls
    /\ \E enabled \in BOOLEAN :
          base_handler' = [base_handler EXCEPT !.enabled = enabled,
                                               !.calls = @ + 1,
                                               !.args = 0, !.executed = FALSE,
                                               !.sent = <<>>, !.returned = "none"]
    /\ HandlerFrame

\* A handler from its construction, for every choice of its argument bounds,
\* under calls of handle and set_enabled.
InitHandler ==
    /\ now = 0
    /\ ticks = 0
    /\ PROCESSED_MESSAGES = <<>>
    /\ CHECK_EXECUTION_LOCK = FALSE
    /\ fetch_threads = 0
    /\ authorized_users \in AuthorizedUserSets
    /\ handlers = EmptyRegistry.handlers
    /\ aliases = EmptyRegistry.aliases
    /\ middleware = <<>>
    /\ env = [sink |-> SinkOutcomes, replay |-> FALSE, ages |-> {0},
              profiles |-> {}, concurrency |-> 1, history |-> FALSE]
    /\ user_commands = <<>>
    /\ task = [t \in Tasks |-> IdleTask]
    /\ deliveries = 0
    /\ last = NoDelivery
    /\ passes = <<>>
    /\ reg_log = NoRegistryCall
    /\ parse_call = NotParsed
    /\ session = "None"
    /\ base_handler \in {NewBaseHandler(min_args, max_args) :
                            min_args \in 0..(MaxArgs - 1),
                            max_args \in {NoMaxArgs} \cup 0..(MaxArgs - 1)}

NextHandler == Handle \/ SetEnabled

SpecHandler == InitHandler /\ [][NextHandler]_vars

\* The transport delivers the first event, with any create_time, once more.
DeliverAgain ==
    \E p \in env.profiles, age \in env.ages :
        process_message_event(1, FreshIds[1][1], FreshIds[1][2], now - age, p)

\* The dispatcher as lark_bot.startup_event configures it, with a sink that
\* posts every message, while the clock advances and the transport delivers
\* one event again and again, at any age.
InitReplay ==
    InitWith({<<"authorization">>},
             {[sink |-> {"delivered"}, replay |-> TRUE, ages |-> ReplayAges,
               profiles |-> HelpProfiles, concurrency |-> 1, history |-> TRUE,
               create_times |-> TRUE]})

\* With these surroundings no other action is ever enabled.
NextReplay ==
    \/ Tick
    \/ DeliverAgain
    \/ \E t \in Tasks : AEnter(t)
    \/ \E t \in Tasks : RunMiddleware(t)
    \/ \E t \in Tasks : Lookup(t)
    \/ \E t \in Tasks : HandlerSendAndReturn(t)
    \/ \E t \in Tasks : HandlerExcept(t)
    \/ \E t \in Tasks : AExit(t)

SpecReplay == InitReplay /\ [][NextReplay]_vars

\* The transport delivers an event whose header is missing or carries no
\* event_id: process_message_event reads header.get("event_id", "").
DeliverWithoutEventId ==
    \E t \in 1..env.concurrency, message_id \in {"om1", "om2"},
       p \in env.profiles, age \in env.ages :
        /\ \A u \in Tasks : u < t => task[u].pc # "idle"
        /\ process_message_event(t, "", message_id, now - age, p)

\* With the surroundings of InitTime and a transport that supplies no
\* event ids, no other action is ever enabled.
NextNoEventId ==
    \/ Tick
    \/ DeliverWithoutEventId
    \/ \E t \in Tasks : AEnter(t)
    \/ \E t \in Tasks : RunMiddleware(t)
    \/ \E t \in Tasks : Lookup(t)
    \/ \E t \in Tasks : HandlerSendAndReturn(t)
    \/ \E t \in Tasks : HandlerExcept(t)
    \/ \E t \in Tasks : AExit(t)

SpecNoEventId == InitTime /\ [][NextNoEventId]_vars

\* Concurrent dispatches of the help command through the shared API client,
\* with a sink that posts every message, at one instant of the clock.
InitSession ==
    InitWith({<<"authorization">>},
             {[sink |-> {"delivered"}, replay |-> FALSE, ages |-> {0},
               profiles |-> HelpProfiles, concurrency |-> NumTasks,
               history |-> FALSE, session |-> TRUE]})

\* With these surroundings no other action is ever enabled.
NextSession ==
    \/ Deliver
    \/ \E t \in Tasks : AEnter(t)
    \/ \E t \in Tasks : RunMiddleware(t)
    \/ \E t \in Tasks : Lookup(t)
    \/ \E t \in Tasks : HandlerSendAndReturn(t)
    \/ \E t \in Tasks : HandlerExcept(t)
    \/ \E t \in Tasks : AExit(t)

SpecSession == InitSession /\ [][NextSession]_vars

\* A registry from its construction, under calls of register and unregister.
InitReg ==
    InitBase({<<>>},
             {[sink |-> {"delivered"}, replay |-> FALSE, ages |-> {0},
               profiles |-> {}, concurrency |-> 1, history |-> FALSE]},
             AuthorizedUserSets, EmptyRegistry)

NextReg ==
    \/ \E handler \in HandlerPool : Register(handler)
    \/ \E command_name \in UnregisterNames : Unregister(command_name)

SpecReg == InitReg /\ [][NextReg]_vars

\* ================================================================== claims
Ttl == MESSAGE_CACHE_TTL * MsPerSecond
StaleAge == STALE_SECONDS * MsPerSecond

Quiescent == \A t \in Tasks : task[t].pc = "idle"

\* a webhook delivery happens in this step
Delivery == deliveries' = deliveries + 1

SamePair(a, b) == a.event_id = b.event_id /\ a.message_id = b.message_id
SharesKey(a, b) == a.event_id = b.event_id \/ a.message_id = b.message_id

\* ------------------------------------------------------------------- C1
\* C1 as stated: of the deliveries of one (eventId, messageId) pair inside
\* the TTL, exactly one reaches handler.handle: no two of them pass the
\* duplicate filter, and once a later one has been dropped as a duplicate
\* and every task has ended, the one that passed has been handled.
C1_ExactlyOneHandled ==
    /\ \A i, j \in DOMAIN passes :
          i < j /\ SamePair(passes[i], passes[j]) => passes[j].at - passes[i].at > Ttl
    /\ (Quiescent /\ last.verdict = "duplicate") =>
          \A i \in DOMAIN passes :
              (SamePair(passes[i], last) /\ now - passes[i].at <= Ttl)
                 => passes[i].fate = "handled"

\* C1, amended: of the deliveries of one (eventId, messageId) pair inside the
\* TTL, at most one reaches handler.handle.  Exactly one passes the duplicate
\* filter; it reaches handler.handle unless opening the API client session
\* raises; every other delivery is dropped by the filter, starts no task and
\* so sends nothing.
C1_AtMostOneHandled ==
    /\ \A i, j \in DOMAIN passes :
          i < j /\ SamePair(passes[i], passes[j]) => passes[j].at - passes[i].at > Ttl
    /\ \A i \in DOMAIN passes : passes[i].fate \in {"pending", "handled", "session_error"}
    /\ Quiescent => \A i \in DOMAIN passes : passes[i].fate \in {"handled", "session_error"}
    /\ \A t \in Tasks : task[t].pc # "idle" =>
          /\ task[t].hidx \in DOMAIN passes
          /\ passes[task[t].hidx].fate \in {"pending", "handled", "session_error"}
          /\ \A u \in Tasks \ {t} : task[u].pc # "idle" => task[u].hidx # task[t].hidx
    /\ last.verdict = "duplicate" =>
          \E i \in DOMAIN passes : SharesKey(passes[i], last)

\* C1: the pair was delivered twice inside the TTL; the first delivery was
\* handled, the second was dropped as a duplicate.
C1_Witness ==
    /\ Quiescent
    /\ last.verdict = "duplicate"
    /\ \E i \in DOMAIN passes :
          /\ SamePair(passes[i], last)
          /\ passes[i].fate = "handled"
          /\ now - passes[i].at <= Ttl
          /\ \A j \in DOMAIN passes : j # i => ~SharesKey(passes[j], last)

C3_StaleDropLeavesCache ==
    [][ Delivery =>
          /\ (last'.verdict = "stale" <=> last'.age > StaleAge)
          /\ last'.verdict = "stale" =>
                /\ PROCESSED_MESSAGES' = PROCESSED_MESSAGES
                /\ passes' = passes
                /\ task' = task
          /\ (last'.after_stale /\ last'.verdict # "stale") =>
                (last'.verdict = "accepted" <=>
                   ~ \E i \in DOMAIN passes :
                        SharesKey(passes[i], last') /\ now - passes[i].at <= Ttl) ]_vars

\* C3: ids never seen before were dropped as stale, and the fresh delivery of
\* the same ids that followed was accepted.
C3_Witness ==
    /\ last.after_stale
    /\ last.verdict = "accepted"
    /\ Len(passes) = 1

\* ------------------------------------------------------- check handler lock
\* the program points of CheckHandler.handle between taking the lock and the
\* finally clause
CheckBody ==
    {"chk_no_wallets", "chk_not_found", "chk_checking", "chk_fetch",
     "chk_table", "chk_fetch_error", "chk_timeout", "chk_except"}

Running == {t \in Tasks : task[t].pc \in CheckBody}

\* task t calls CheckHandler.handle in this step
CallsCheck(t) ==
    /\ task[t].pc = "lookup"
    /\ task'[t].pc # "lookup"
    /\ get_handler(handlers, aliases, task[t].command) = CheckHandler

\* n of the sends ps were posted by the sink
Delivered(ps, n) == Cardinality({i \in DOMAIN ps : ps[i].out = "delivered"}) = n

\* ------------------------------------------------------------------- C4
\* C4: at most one task is inside the body of CheckHandler.handle at any
\* time, whoever sent the commands and under whichever name (check, balance,
\* bal) they were invoked; a call of handle that finds the lock held returns
\* False in the same step, without suspending and without entering the body;
\* a call that finds it free enters the body and takes the lock.
C4_OneCheckAtATime ==
    /\ [](Cardinality(Running) <= 1)
    /\ [][ \A t \in Tasks : CallsCheck(t) =>
             /\ task'[t].handler_calls = 1
             /\ IF Running # {}
                THEN /\ task'[t].pc = "aexit"
                     /\ task'[t].result = "false"
                     /\ task'[t].busy
                     /\ Running' = Running
                     /\ CHECK_EXECUTION_LOCK' = CHECK_EXECUTION_LOCK
                ELSE /\ Running' = {t}
                     /\ task'[t].pc \in CheckBranches
                     /\ CHECK_EXECUTION_LOCK' ]_vars

\* C4: /check from one sender is waiting for its balances while the call
\* made for /bal from another sender has been turned away.
C4_Witness ==
    \E t, u \in Tasks :
        /\ task[t].pc = "chk_fetch"
        /\ task[u].pc = "aexit" /\ task[u].busy
        /\ task[t].sender # task[u].sender
        /\ task[t].command = Name("check")
        /\ task[u].command = Name("bal")

\* ------------------------------------------------------------------- C5
\* C5: the lock is held exactly while a task is inside the body of
\* CheckHandler.handle: every way out of the body (a return of True, a
\* return of False, an exception, the 30-second timeout) leaves the lock
\* free, so the next call of handle acquires it.
C5_LockHeldOnlyWhileRunning ==
    /\ CHECK_EXECUTION_LOCK <=> Running # {}
    /\ \A t \in Tasks : task[t].holds_lock <=> t \in Running

\* C5: a run of the check handler ended by the fetch timeout, and the next
\* call of the handler has acquired the lock.
C5_Witness ==
    \E t, u \in Tasks :
        /\ task[t].pc = "aexit" /\ task[t].via = "chk_timeout"
        /\ task[u].pc \in CheckBody
        /\ CHECK_EXECUTION_LOCK

\* ------------------------------------------------------------------- C6
\* C6: a call of the check handler that finds the lock held is answered: by
\* the time execute_command has returned, the handler or the dispatcher has
\* sent the user a message about it.
C6_BusyIsAnswered ==
    \A t \in Tasks :
        (task[t].busy /\ task[t].pc = "aexit")
           => (task[t].handler_sent \/ task[t].resp # <<>>)

\* ------------------------------------------------------------------- C7
\* the event of task t was denied by the authorization predicate or by the
\* rate limiter
DeniedByPredicate(t) ==
    /\ task[t].pc \notin {"idle", "aenter", "failed"}
    /\ passes[task[t].hidx].fate = "blocked"
    /\ middleware[task[t].mwi] \in {"authorization", "rate_limit"}

\* C7: once the authorization predicate or the rate limiter has denied a
\* command, its handler is never called (the call count of the event stays
\* 0 and the event never takes the check lock), the predicate sends exactly
\* one denial card, nothing else is sent for the event, and execute_command
\* returns False.
C7_DenialStopsTheCommand ==
    \A t \in Tasks : DeniedByPredicate(t) =>
        /\ task[t].handler_calls = 0
        /\ task[t].cls = "None"
        /\ ~task[t].holds_lock /\ ~CHECK_EXECUTION_LOCK
        /\ ~task[t].handler_sent
        /\ LET kind == IF middleware[task[t].mwi] = "authorization"
                       THEN "access_denied" ELSE "rate_limited"
           IN \/ /\ task[t].pc = IF kind = "access_denied" THEN "mw_send_denied"
                                                            ELSE "mw_send_rate"
                 /\ task[t].resp = <<>>
              \/ /\ task[t].pc = "aexit"
                 /\ task[t].result = "false"
                 /\ Len(task[t].resp) = 1
                 /\ task[t].resp[1].by = "middleware"
                 /\ task[t].resp[1].kind = kind

\* C7: behind an authorization predicate that let the sender through, the
\* rate limiter denied the command and its card was posted; an earlier
\* command was denied too.
C7_Witness ==
    \E t \in Tasks :
        /\ DeniedByPredicate(t)
        /\ task[t].pc = "aexit"
        /\ task[t].resp = <<[by |-> "middleware", kind |-> "rate_limited",
                             out |-> "delivered"]>>
        /\ middleware = <<"authorization", "rate_limit">>
        /\ \E i \in DOMAIN passes : i # task[t].hidx /\ passes[i].fate = "blocked"

\* ------------------------------------------------------------------- C8
\* C8: execute_command leaves only by returning a boolean, whatever the
\* middleware, the handler and the sink do: a task is past execute_command
\* exactly when it has a result, the result is True or False, and it is
\* False whenever a predicate denied or raised, the handler raised, or a
\* send of the dispatcher raised.
C8_AlwaysReturnsBoolean ==
    \A t \in Tasks :
        /\ task[t].result \in {"none", "true", "false"}
        /\ task[t].result # "none" <=> task[t].pc = "aexit"
        /\ task[t].pc = "aexit" =>
              ( ( \/ task[t].via = "exception"
                  \/ \E i \in DOMAIN task[t].resp : task[t].resp[i].out = "raised"
                  \/ passes[task[t].hidx].fate \in {"blocked", "unknown"} )
                => task[t].result = "false" )

\* C8: the handler raised, the error card raised, and the plain-text
\* fallback raised as well; execute_command returned False.
C8_Witness ==
    \E t \in Tasks :
        /\ task[t].pc = "aexit"
        /\ task[t].via = "exception"
        /\ task[t].resp =
             <<[by |-> "dispatcher", kind |-> "error_card", out |-> "raised"],
               [by |-> "dispatcher", kind |-> "error_text", out |-> "raised"]>>
        /\ task[t].result = "false"

\* ------------------------------------------------------------------- C9
\* C9: when handler.handle raises, execute_command catches it and notifies
\* the user once: it sends the error card, and the plain-text fallback only
\* if the card send raised, so at most one message comes through; it returns
\* False; and the lock the handler held is free from the step in which the
\* exception left the handler.
C9_HandlerExceptionIsReported ==
    /\ [](\A t \in Tasks : task[t].via = "exception" =>
            /\ task[t].handler_calls = 1
            /\ ~task[t].holds_lock
            /\ t \notin Running
            /\ CHECK_EXECUTION_LOCK => \E u \in Tasks \ {t} : u \in Running
            /\ \/ task[t].pc = "error_card" /\ task[t].resp = <<>>
               \/ /\ task[t].pc = "error_text"
                  /\ task[t].resp = <<[by |-> "dispatcher", kind |-> "error_card",
                                       out |-> "raised"]>>
               \/ /\ task[t].pc = "aexit"
                  /\ task[t].result = "false"
                  /\ Len(task[t].resp) \in {1, 2}
                  /\ task[t].resp[1].by = "dispatcher"
                  /\ task[t].resp[1].kind = "error_card"
                  /\ Len(task[t].resp) = 2 <=> task[t].resp[1].out = "raised"
                  /\ Len(task[t].resp) = 2 =>
                        /\ task[t].resp[2].by = "dispatcher"
                        /\ task[t].resp[2].kind = "error_text"
                  /\ Delivered(task[t].resp, 0) \/ Delivered(task[t].resp, 1))
    /\ [][ \A t \in Tasks :
             (task[t].via # "exception" /\ task'[t].via = "exception"
              /\ task[t].holds_lock) => ~CHECK_EXECUTION_LOCK' ]_vars

\* C9: the check handler raised while it held the lock; the error card was
\* posted, execute_command returned False and the lock is free.
C9_Witness ==
    \E t \in Tasks :
        /\ task[t].pc = "aexit"
        /\ task[t].via = "exception"
        /\ task[t].cls = "CheckHandler"
        /\ task[t].resp = <<[by |-> "dispatcher", kind |-> "error_card",
                             out |-> "delivered"]>>
        /\ task[t].result = "false"
        /\ ~CHECK_EXECUTION_LOCK

\* ------------------------------------------------------------------ C10
\* C10: when handler.handle returns False, execute_command returns False
\* and the dispatcher sends nothing of its own: neither the unknown-command
\* nor the error notification is made.
C10_FalseReturnIsSilent ==
    \A t \in Tasks :
        /\ (task[t].handler_calls = 1 /\ task[t].via # "exception"
            /\ task[t].pc \notin CheckBody \cup HandlerBranches)
              => (task[t].pc = "aexit" /\ task[t].resp = <<>>)
        /\ (task[t].pc = "aexit" /\ task[t].handler_calls = 1
            /\ task[t].via \in {"chk_not_found", "chk_timeout", "chk_fetch_error",
                                "chk_except", "h_except"})
              => (task[t].result = "false" /\ task[t].resp = <<>>)

\* C10: the check handler answered that the wallet was not found and
\* returned False; the dispatcher sent nothing.
C10_Witness ==
    \E t \in Tasks :
        /\ task[t].pc = "aexit"
        /\ task[t].via = "chk_not_found"
        /\ task[t].handler_sent
        /\ task[t].result = "false"
        /\ task[t].resp = <<>>

\* ------------------------------------------------------------------ C11
\* C11: every event gets at most one response of the dispatcher's own, and
\* gets one exactly on its failure branches: when execute_command has
\* returned, it or a predicate has notified the user if and only if the
\* command was denied, was unknown, found the check lock held, or its handler
\* raised; and at most one of the sends made for the notification was posted.
C11_OneResponseOnFailureBranches ==
    \A t \in Tasks : task[t].pc = "aexit" =>
        /\ ( \/ task[t].handler_calls = 0
             \/ task[t].busy
             \/ task[t].via = "exception" ) <=> task[t].resp # <<>>
        /\ Delivered(task[t].resp, 0) \/ Delivered(task[t].resp, 1)

\* ------------------------------------------------------------------ C12
\* the authorization predicate decides about task t in this step
AuthorizationDecides(t) ==
    /\ task[t].pc = "middleware"
    /\ middleware[task[t].mwi] = "authorization"
    /\ task'[t].pc # "middleware"

Listed(t) == authorized_users = {} \/ task[t].sender \in authorized_users

\* C12: with an empty allow-list the authorization predicate lets every
\* sender through; with a non-empty one it lets through exactly the senders
\* in the list and denies every other, so that no handler is ever called for
\* a sender outside a non-empty allow-list.
C12_AllowListDecides ==
    /\ [][ \A t \in Tasks : AuthorizationDecides(t) =>
             /\ Listed(t) <=> task'[t].pc = "lookup"
             /\ ~Listed(t) <=> task'[t].pc = "mw_send_denied" ]_vars
    /\ [](\A t \in Tasks : task[t].handler_calls > 0 => Listed(t))

\* C12: the allow-list is empty and the handler ran for a sender that the
\* configured lists do not name.
C12_Witness ==
    /\ authorized_users = {}
    /\ \E t \in Tasks :
          /\ task[t].sender = "ou_mallory"
          /\ task[t].handler_calls = 1
          /\ task[t].pc = "aexit"
          /\ task[t].result = "true"

\* ------------------------------------------------------------------ C13
Window == RATE_TIME_WINDOW * MsPerSecond

\* the deliveries of a sender that the rate limiter has accepted so far
AcceptedOf(sender) ==
    {i \in DOMAIN passes : passes[i].sender = sender /\ passes[i].accepted_at >= 0}

\* the rate limiter decides about task t in this step
RateLimiterDecides(t) ==
    /\ task[t].pc = "middleware"
    /\ middleware[task[t].mwi] = "rate_limit"
    /\ task'[t].pc # "middleware"

\* C13: no sender ever has more than max_commands commands accepted inside
\* a window of time_window seconds (a window that ends at an accepted command
\* and starts time_window before it, start excluded); the limiter rejects a
\* command exactly when the sender already has max_commands accepted commands
\* less than time_window old, accepts it otherwise, and touches no other
\* sender's record.
C13_SlidingWindowPerSender ==
    /\ [](\A i \in DOMAIN passes : passes[i].accepted_at >= 0 =>
            Cardinality({j \in AcceptedOf(passes[i].sender) :
                           /\ passes[j].accepted_at > passes[i].accepted_at - Window
                           /\ passes[j].accepted_at <= passes[i].accepted_at})
              <= MaxCommands)
    /\ [][ \A t \in Tasks : RateLimiterDecides(t) =>
             LET recent == {j \in AcceptedOf(task[t].sender) :
                              passes[j].accepted_at > now - Window}
             IN /\ task'[t].pc = "mw_send_rate" <=> Cardinality(recent) >= MaxCommands
                /\ task'[t].pc = "lookup" <=> Cardinality(recent) < MaxCommands
                /\ task'[t].pc = "lookup" <=> passes'[task[t].hidx].accepted_at = now
                /\ \A s \in DOMAIN user_commands : s # task[t].sender =>
                      /\ s \in DOMAIN user_commands'
                      /\ user_commands'[s] = user_commands[s] ]_vars

\* C13: a sender's command was accepted, the next was rejected inside the
\* window, and one sent after the window had passed was accepted again.
C13_Witness ==
    \E i, j, k \in DOMAIN passes :
        /\ i < j /\ j < k
        /\ passes[i].sender = passes[k].sender
        /\ passes[i].accepted_at >= 0
        /\ passes[k].accepted_at >= passes[i].accepted_at + Window
        /\ passes[j].sender = passes[i].sender
        /\ passes[j].fate = "blocked"
        /\ passes[j].at < passes[i].accepted_at + Window

\* ------------------------------------------------------------------ C14
Halted == {"mw_send_denied", "mw_send_rate", "aexit"}

\* what the predicate of a given name sends when it denies
DenialKind(name) ==
    CASE name = "authorization" -> {"access_denied"}
      [] name = "rate_limit"    -> {"rate_limited"}
      [] OTHER                  -> {}

\* C14: the predicates of the chain are evaluated one at a time in
\* registration order; when one returns False or raises, the chain stops at
\* it: no later predicate is evaluated (none of them sends a denial or
\* records a timestamp), get_handler is not reached and no handler is
\* called.  get_handler is reached only after every predicate has allowed.
C14_ChainStopsAtFirstDenial ==
    /\ [](\A t \in Tasks : task[t].pc \notin {"idle", "aenter", "failed"} =>
            LET k == task[t].mwi
                n == Len(middleware)
                fate == passes[task[t].hidx].fate
            IN /\ k \in 1..(n + 1)
               /\ task[t].pc = "middleware" =>
                     /\ fate = "pending" /\ k <= n
                     /\ task[t].handler_calls = 0 /\ task[t].resp = <<>>
               /\ fate = "blocked" =>
                     /\ k <= n
                     /\ task[t].pc \in Halted
                     /\ task[t].handler_calls = 0 /\ task[t].cls = "None"
                     /\ \A i \in DOMAIN task[t].resp :
                           /\ task[t].resp[i].by = "middleware"
                           /\ task[t].resp[i].kind \in DenialKind(middleware[k])
               /\ (task[t].pc = "lookup" \/ fate \in {"handled", "unknown"})
                     => k = n + 1)
    /\ [][ \A t \in Tasks : (task[t].pc = "middleware" /\ task'[t] # task[t]) =>
             \/ /\ task'[t].mwi = task[t].mwi + 1
                /\ task'[t].pc = IF task[t].mwi = Len(middleware) THEN "lookup"
                                 ELSE "middleware"
                /\ passes'[task[t].hidx].fate = "pending"
             \/ /\ task'[t].mwi = task[t].mwi
                /\ task'[t].pc \in Halted
                /\ passes'[task[t].hidx].fate = "blocked"
                /\ middleware[task[t].mwi] # "rate_limit"
                      => user_commands' = user_commands ]_vars

\* C14: the first predicate of the chain stopped the command of a sender
\* that the authorization predicate behind it would have denied with a card;
\* no card was sent.
C14_Witness ==
    /\ middleware = <<"custom", "authorization">>
    /\ \E t \in Tasks :
          /\ task[t].pc = "aexit"
          /\ task[t].mwi = 1
          /\ task[t].sender = "ou_mallory"
          /\ passes[task[t].hidx].fate = "blocked"
          /\ task[t].resp = <<>>
          /\ task[t].result = "false"

\* ----------------------------------------------------------- the registry
AliasSet(handler) == {Lower(handler.aliases[i]) : i \in DOMAIN handler.aliases}

Resolve(token) == get_handler(handlers, aliases, token)

\* a call of register or unregister happens in this step
RegistryCall(op) == reg_log'.calls = reg_log.calls + 1 /\ reg_log'.op = op

\* no alias of a command is the name or an alias of another command
CollisionFree(registered) ==
    \A h1, h2 \in registered : Lower(h1.name) # Lower(h2.name) =>
        AliasSet(h1) \cap ({Lower(h2.name)} \cup AliasSet(h2)) = {}

\* ------------------------------------------------------------------ C15
\* C15: get_handler does not depend on the letter case of the token; a token
\* resolves either as a registered name or through one alias entry whose
\* target is a registered name, never through two alias entries; a token that
\* is neither a name nor an alias resolves to nothing; and right after
\* register(handler) every alias of the handler, in any letter case, resolves
\* to that handler (unless the alias is the registered name of another
\* command, which takes precedence).
C15_AliasResolutionIsOneHop ==
    /\ [](\A token \in Tokens :
            LET lowered == Lower(token)
                found == Resolve(token)
            IN /\ found = Resolve(lowered)
               /\ found # None =>
                     \/ lowered \in DOMAIN handlers /\ found = handlers[lowered]
                     \/ /\ lowered \notin DOMAIN handlers
                        /\ lowered \in DOMAIN aliases
                        /\ aliases[lowered] \in DOMAIN handlers
                        /\ found = handlers[aliases[lowered]]
               /\ (lowered \notin DOMAIN handlers /\ lowered \notin DOMAIN aliases)
                     => found = None)
    /\ [][ RegistryCall("register") =>
             LET handler == handlers'[reg_log'.name] IN
             \A token \in Tokens :
                 ( /\ Lower(token) \in AliasSet(handler)
                   /\ Lower(token) \notin DOMAIN handlers' \ {reg_log'.name} )
                    => get_handler(handlers', aliases', token) = handler ]_vars

\* C15: check is registered with the alias bal; BAL, Bal and bal resolve to
\* its handler and an unknown token resolves to nothing.
C15_Witness ==
    /\ reg_log.op = "register"
    /\ reg_log.name = Name("check")
    /\ Resolve(Name("BAL")) = CheckHandler
    /\ Resolve(Name("Bal")) = CheckHandler
    /\ Resolve(Name("bal")) = CheckHandler
    /\ Resolve(Name("nope")) = None

\* ------------------------------------------------------------------ C16
\* token resolves through the name: it is the name or an alias entry that
\* points to it
MapsTo(token, name) ==
    \/ Lower(token) = name
    \/ Lower(token) \in DOMAIN aliases /\ aliases[Lower(token)] = name

\* C16: unregister(name) returns True exactly when the name was registered,
\* and changes nothing when it was not; when it returns True the name is no
\* longer registered, no alias entry that pointed to the name is left in the
\* table, and neither the name nor any alias that pointed to it, in any
\* letter case, resolves to a handler (the registered commands respecting
\* the rule that no alias is another command's name or alias).
C16_UnregisterRemovesNameAndAliases ==
    [][ RegistryCall("unregister") =>
          LET name == reg_log'.name IN
          /\ reg_log'.returned <=> name \in DOMAIN handlers
          /\ ~reg_log'.returned => (handlers' = handlers /\ aliases' = aliases)
          /\ (reg_log'.returned /\ CollisionFree(reg_log.registered)) =>
                /\ name \notin DOMAIN handlers'
                /\ \A alias \in DOMAIN aliases' : aliases'[alias] # name
                /\ \A token \in Tokens : MapsTo(token, name) =>
                      get_handler(handlers', aliases', token) = None ]_vars

\* ------------------------------------------------------------------ C17
\* the command of task t was not found by get_handler
Unknown(t) ==
    /\ task[t].pc \in {"unknown_card", "unknown_text", "aexit"}
    /\ passes[task[t].hidx].fate = "unknown"

Ascending(names) ==
    \A i, j \in DOMAIN names : i < j => StrLess(names[i], names[j])

\* C17: a command is treated as unknown exactly when its token, lowercased,
\* is neither a registered name nor an alias; for it no handler is called,
\* execute_command returns False, and the dispatcher notifies once: the
\* unknown-command card, and the plain-text fallback only if the card send
\* raised.  What it sends lists every registered primary name, once each, in
\* ascending order.
C17_UnknownCommandListsNames ==
    \A t \in Tasks :
        /\ (task[t].pc \notin {"idle", "aenter", "failed"}
            /\ passes[task[t].hidx].fate \in {"handled", "unknown"}) =>
              ( passes[task[t].hidx].fate = "unknown"
                  <=> Lower(task[t].command) \notin DOMAIN handlers \cup DOMAIN aliases )
        /\ Unknown(t) =>
              /\ task[t].handler_calls = 0 /\ task[t].cls = "None"
              /\ ~task[t].handler_sent
              /\ task[t].pc = "unknown_card" => task[t].resp = <<>>
              /\ task[t].pc = "unknown_text" =>
                    task[t].resp = <<[by |-> "dispatcher", kind |-> "unknown_card",
                                      out |-> "raised"]>>
              /\ task[t].pc = "aexit" =>
                    /\ task[t].result = "false"
                    /\ Len(task[t].resp) \in {1, 2}
                    /\ task[t].resp[1].by = "dispatcher"
                    /\ task[t].resp[1].kind = "unknown_card"
                    /\ Len(task[t].resp) = 2 <=> task[t].resp[1].out = "raised"
                    /\ Len(task[t].resp) = 2 =>
                          /\ task[t].resp[2].by = "dispatcher"
                          /\ task[t].resp[2].kind = "unknown_text"
                    /\ Delivered(task[t].resp, 0) \/ Delivered(task[t].resp, 1)
              /\ task[t].resp # <<>> =>
                    /\ Ascending(task[t].listing)
                    /\ {task[t].listing[i] : i \in DOMAIN task[t].listing}
                          = DOMAIN handlers
                    /\ Len(task[t].listing) = Cardinality(DOMAIN handlers)

\* C17: /nope was dispatched; no handler ran and the card that was posted
\* lists check and help.
C17_Witness ==
    \E t \in Tasks :
        /\ Unknown(t)
        /\ task[t].pc = "aexit"
        /\ task[t].command = Name("nope")
        /\ task[t].resp = <<[by |-> "dispatcher", kind |-> "unknown_card",
                             out |-> "delivered"]>>
        /\ task[t].listing = <<Name("check"), Name("help")>>

\* ------------------------------------------------------------------ C18
\* the keys of the cache recorded at most TTL ago
LiveKeys == {k \in DOMAIN PROCESSED_MESSAGES : now - PROCESSED_MESSAGES[k] <= Ttl}

\* C18: an event that reaches the duplicate filter is dropped exactly when
\* event:<eventId> or msg:<messageId> is in the cache, recorded at most TTL
\* ago; one of the two is enough.  A dropped event inserts no key and
\* changes no timestamp: the cache keeps its unexpired entries as they were.
\* An event that is not dropped records both its keys with the current time
\* and leaves every other unexpired entry as it was.
C18_EitherKeyDropsAndOnlyNewEventsInsert ==
    [][ (Delivery /\ last'.verdict # "stale") =>
          LET keys == {event_key(last'.event_id), message_key(last'.message_id)} IN
          /\ last'.verdict = "duplicate" <=> keys \cap LiveKeys # {}
          /\ last'.verdict = "duplicate" =>
                /\ DOMAIN PROCESSED_MESSAGES' = LiveKeys
                /\ \A k \in LiveKeys : PROCESSED_MESSAGES'[k] = PROCESSED_MESSAGES[k]
          /\ last'.verdict # "duplicate" =>
                /\ DOMAIN PROCESSED_MESSAGES' = LiveKeys \cup keys
                /\ \A k \in keys : PROCESSED_MESSAGES'[k] = now
                /\ \A k \in LiveKeys \ keys :
                      PROCESSED_MESSAGES'[k] = PROCESSED_MESSAGES[k] ]_vars

\* C18: an event that shares only its message id with the one event seen
\* before was dropped some time after it; its own event key was not
\* recorded and the entries found kept their timestamp.
C18_Witness ==
    /\ last.verdict = "duplicate"
    /\ Len(passes) = 1
    /\ passes[1].message_id = last.message_id
    /\ passes[1].event_id # last.event_id
    /\ passes[1].at < now
    /\ event_key(last.event_id) \notin DOMAIN PROCESSED_MESSAGES
    /\ PROCESSED_MESSAGES[message_key(last.message_id)] = passes[1].at

\* ------------------------------------------------------------------ C19
\* C19: an event whose sender type is app or bot that reaches the sender
\* test is dropped there: it starts no task, so no middleware, no handler
\* and no response follow from it.
C19_AutomatedSendersAreNotDispatched ==
    last.sender_type \in {"app", "bot"} => last.verdict = "bot"

\* ------------------------------------------------------------------ C20
\* the position of the first character of s that is not whitespace, or 0
FirstInk(s) ==
    IF \A i \in DOMAIN s : s[i] \in Whitespace THEN 0
    ELSE CHOOSE i \in DOMAIN s :
            s[i] \notin Whitespace /\ \A j \in 1..(i - 1) : s[j] \in Whitespace

\* the trimmed text s starts with the prefix
PrefixAt(s) ==
    /\ FirstInk(s) > 0
    /\ FirstInk(s) + Len(command_prefix) - 1 <= Len(s)
    /\ \A k \in DOMAIN command_prefix : s[FirstInk(s) + k - 1] = command_prefix[k]

\* what follows the prefix
AfterPrefix(s) == SubSeq(s, FirstInk(s) + Len(command_prefix), Len(s))

\* the positions where a whitespace-delimited token of s starts
TokenStarts(s) ==
    {i \in DOMAIN s : s[i] \notin Whitespace /\ (i = 1 \/ s[i - 1] \in Whitespace)}

\* the token of s that starts at position i
TokenAt(s, i) ==
    LET end == CHOOSE j \in i..Len(s) :
                  /\ \A k \in i..j : s[k] \notin Whitespace
                  /\ j = Len(s) \/ s[j + 1] \in Whitespace
    IN SubSeq(s, i, end)

\* the whitespace-delimited tokens of s, in order
Words(s) ==
    [n \in 1..Cardinality(TokenStarts(s)) |->
        TokenAt(s, CHOOSE i \in TokenStarts(s) :
                       Cardinality({j \in TokenStarts(s) : j < i}) = n - 1)]

\* C20: is_command is true exactly when the trimmed text starts with the
\* prefix and a character that is not whitespace follows it; parse_command
\* returns ("", []) exactly when is_command is false, and otherwise the
\* first whitespace-delimited token after the prefix, lowercased, as the
\* name and the remaining tokens, unchanged and in order, as the arguments.
C20_ParserDetectsAndSplitsCommands ==
    parse_call.calls = 1 =>
        LET s == parse_call.content IN
        /\ parse_call.is_command <=>
              /\ PrefixAt(s)
              /\ \E k \in DOMAIN AfterPrefix(s) : AfterPrefix(s)[k] \notin Whitespace
        /\ (parse_call.command = <<>> /\ parse_call.args = <<>>) <=> ~parse_call.is_command
        /\ parse_call.is_command =>
              /\ parse_call.command = Lower(Words(AfterPrefix(s))[1])
              /\ parse_call.args = Tail(Words(AfterPrefix(s)))

\* C20: "/B a B" was parsed as the command b with the arguments a and B.
C20_Witness ==
    /\ parse_call.calls = 1
    /\ parse_call.content = <<"/", "B", " ", "a", " ", "B">>
    /\ parse_call.is_command
    /\ parse_call.command = <<"b">>
    /\ parse_call.args = << <<"a">>, <<"B">> >>

\* ------------------------------------------------------------------ C21
\* C21: a delivered command starts a dispatch only if its thread id is the
\* configured commands-topic thread id.  A command of any other thread, or
\* with an empty thread id, starts no task: no middleware and no handler
\* run for it and nothing is sent, then or later.
C21_OnlyTheCommandsTopicIsDispatched ==
    [][ /\ Delivery =>
            /\ last'.verdict = "accepted" => last'.thread_id = LARK_TOPIC_COMMANDS
            /\ last'.thread_id # LARK_TOPIC_COMMANDS =>
                  /\ last'.verdict = "off_topic"
                  /\ task' = task
                  /\ user_commands' = user_commands
                  /\ Len(passes') = Len(passes) + 1
                  /\ passes'[Len(passes')].fate = "gated"
        /\ \A i \in DOMAIN passes :
              passes[i].fate = "gated" => passes'[i].fate = "gated"
        /\ \A t \in Tasks : task'[t].pc # "idle" =>
              passes'[task'[t].hidx].fate # "gated" ]_vars

\* C21: a command with an empty thread id was dropped after a command of the
\* commands topic had been handled.
C21_Witness ==
    /\ Quiescent
    /\ last.thread_id = ""
    /\ last.verdict = "off_topic"
    /\ Len(passes) = 2
    /\ passes[1].fate = "handled"
    /\ passes[2].fate = "gated"

\* ------------------------------------------------------------------ C22
\* the program points of execute_command after its middleware loop
AfterMiddleware ==
    {"lookup", "unknown_card", "unknown_text", "error_card", "error_text",
     "h_card", "h_except"} \cup CheckBody

\* task t has gone through the lookup
LookedUp(t) ==
    \/ task[t].pc \in AfterMiddleware \ {"lookup"}
    \/ task[t].handler_calls > 0
    \/ task[t].listing # <<>>

\* C22: the stages run in the order staleness, duplicate filter, middleware,
\* lookup, lock, handler, each only after the earlier ones passed.  A stale
\* event is dropped whatever its ids and leaves the cache alone; a stale or
\* duplicate event starts no task.  A task goes past the middleware only for
\* an authorized sender; an unauthorized sender gets the denial and nothing
\* else, whatever the command.  The handler is called only for a command the
\* lookup found, the lock is tested only inside the check handler, and the
\* body of the check handler runs only with the lock taken: a busy call
\* sends nothing of the handler's.
C22_StagesRunInOrder ==
    /\ [](\A t \in Tasks :
            /\ (task[t].pc \in AfterMiddleware \/ LookedUp(t)) =>
                  /\ is_authorized(authorized_users, task[t].sender)
                  /\ task[t].mwi = Len(middleware) + 1
            /\ (task[t].pc \notin {"idle", "aenter", "failed", "middleware"}
                /\ ~is_authorized(authorized_users, task[t].sender)) =>
                  /\ task[t].pc \in {"mw_send_denied", "aexit"}
                  /\ task[t].handler_calls = 0 /\ task[t].cls = "None"
                  /\ task[t].listing = <<>>
                  /\ ~task[t].holds_lock /\ ~task[t].busy /\ ~task[t].handler_sent
                  /\ task[t].pc = "mw_send_denied" => task[t].resp = <<>>
                  /\ task[t].pc = "aexit" =>
                        /\ Len(task[t].resp) = 1
                        /\ task[t].resp[1].by = "middleware"
                        /\ task[t].resp[1].kind = "access_denied"
            /\ task[t].handler_calls > 0 =>
                  /\ task[t].handler_calls = 1
                  /\ get_handler(handlers, aliases, task[t].command) # None
                  /\ task[t].cls = get_handler(handlers, aliases, task[t].command).cls
                  /\ task[t].listing = <<>>
            /\ (task[t].holds_lock \/ task[t].busy \/ task[t].pc \in CheckBody) =>
                  /\ task[t].cls = "CheckHandler"
                  /\ task[t].handler_calls = 1
            /\ task[t].pc \in CheckBody => task[t].holds_lock /\ ~task[t].busy
            /\ task[t].busy =>
                  /\ ~task[t].holds_lock /\ ~task[t].handler_sent
                  /\ task[t].pc = "aexit" /\ task[t].resp = <<>>)
    /\ [][ Delivery =>
            /\ last'.verdict = "stale" <=> last'.age > StaleAge
            /\ last'.verdict = "stale" => PROCESSED_MESSAGES' = PROCESSED_MESSAGES
            /\ last'.verdict \in {"stale", "duplicate"} => task' = task
            /\ last'.verdict = "accepted" =>
                  \E t \in Tasks :
                      /\ task[t].pc = "idle" /\ task'[t].pc = "aenter"
                      /\ task'[t].mwi = 0 /\ task'[t].handler_calls = 0
                      /\ task'[t].resp = <<>> ]_vars

\* C22: an unauthorized sender sent an unknown command and got the denial,
\* not the command list, while a stale replay of the same event was dropped.
C22_Witness ==
    \E t \in Tasks :
        /\ task[t].sender = "ou_mallory"
        /\ task[t].command = Name("nope")
        /\ task[t].pc = "aexit"
        /\ task[t].resp = <<[by |-> "middleware", kind |-> "access_denied",
                             out |-> "delivered"]>>
        /\ task[t].listing = <<>>
        /\ last.verdict = "stale"
        /\ event_key(last.event_id) \in DOMAIN PROCESSED_MESSAGES

\* ------------------------------------------------------------------ C23
\* the tasks in flight
InFlight == {t \in Tasks : task[t].pc # "idle"}

\* C23: with deliveries of the same event in flight together, whatever the
\* interleaving no two deliveries that share an event id or a message id
\* pass the duplicate filter, and every delivery that passes has its two
\* keys in the cache from the step of its test on; with check dispatches in
\* flight together at most one holds the lock, the flag is set exactly while
\* one holds it, and the step that tests the flag free is the step that
\* sets it.
C23_TestAndSetAreOneStep ==
    /\ [](/\ \A i, j \in DOMAIN passes : i < j => ~SharesKey(passes[i], passes[j])
          /\ \A i \in DOMAIN passes :
                /\ event_key(passes[i].event_id) \in DOMAIN PROCESSED_MESSAGES
                /\ message_key(passes[i].message_id) \in DOMAIN PROCESSED_MESSAGES
          /\ \A t, u \in InFlight : t # u => task[t].hidx # task[u].hidx
          /\ Cardinality({t \in Tasks : task[t].holds_lock}) <= 1
          /\ CHECK_EXECUTION_LOCK <=> \E t \in Tasks : task[t].holds_lock)
    /\ [][ /\ (Delivery /\ last'.verdict = "accepted") =>
                /\ event_key(last'.event_id) \notin DOMAIN PROCESSED_MESSAGES
                /\ message_key(last'.message_id) \notin DOMAIN PROCESSED_MESSAGES
                /\ event_key(last'.event_id) \in DOMAIN PROCESSED_MESSAGES'
                /\ message_key(last'.message_id) \in DOMAIN PROCESSED_MESSAGES'
           /\ \A t \in Tasks :
                (~task[t].holds_lock /\ task'[t].holds_lock) =>
                    /\ task[t].pc = "lookup"
                    /\ ~CHECK_EXECUTION_LOCK /\ CHECK_EXECUTION_LOCK' ]_vars

\* C23: while the first delivery of an event was still running its check
\* under the lock, a replay of it was dropped by the filter, and then the
\* check of another event, in flight with the first, was refused the lock.
C23_Witness ==
    \E t, u \in InFlight :
        /\ t # u
        /\ task[t].holds_lock /\ task[t].hidx = 1
        /\ task[u].busy /\ task[u].hidx = 2
        /\ Len(passes) = 2
        /\ deliveries = 3

\* ------------------------------------------------------------------ C24
\* handle is called in this step
HandleCall ==
    base_handler'.calls = base_handler.calls + 1 /\ base_handler'.returned # "none"

\* the argument count of the call fits the handler's bounds
ArgsFit(h, n) == h.min_args <= n /\ (h.max_args = NoMaxArgs \/ n <= h.max_args)

\* the call ran no command logic: it sent the one notice, returned False and
\* counted nothing
Refused(notice) ==
    /\ ~base_handler'.executed
    /\ Len(base_handler'.sent) = 1
    /\ base_handler'.sent[1].kind = notice
    /\ base_handler'.returned = "false"
    /\ base_handler'.call_count = base_handler.call_count

\* C24 as stated: handle runs execute only when min_args <= len(args) and
\* (max_args is None or len(args) <= max_args); otherwise execute is not
\* called, one usage message is sent, handle returns False and call_count
\* is not incremented.
C24_BadArgumentCountGetsUsage ==
    [][ HandleCall =>
          /\ base_handler'.executed => ArgsFit(base_handler, base_handler'.args)
          /\ ~ArgsFit(base_handler, base_handler'.args) => Refused("usage") ]_vars

\* C24, amended: handle runs execute exactly when the handler is enabled
\* and the argument count fits the bounds, and then increments call_count
\* by one.  An enabled handler called with a count outside the bounds does
\* not call execute, sends one usage message, returns False and leaves
\* call_count alone.  A disabled handler does the same for every argument
\* count, with the disabled notice in place of the usage message.
C24_EnabledHandlerBadArgumentCountGetsUsage ==
    [][ HandleCall =>
          LET fit == ArgsFit(base_handler, base_handler'.args) IN
          /\ base_handler'.executed <=> (base_handler.enabled /\ fit)
          /\ base_handler'.executed =>
                base_handler'.call_count = base_handler.call_count + 1
          /\ (base_handler.enabled /\ ~fit) => Refused("usage")
          /\ ~base_handler.enabled => Refused("disabled") ]_vars

\* C24: a handler that takes one or two arguments ran once with one
\* argument and was then called with three: execute was not called again,
\* the usage message went out and handle returned False.
C24_Witness ==
    /\ base_handler.min_args = 1 /\ base_handler.max_args = 2
    /\ base_handler.enabled
    /\ base_handler.calls = 2
    /\ base_handler.args = 3
    /\ ~base_handler.executed
    /\ base_handler.call_count = 1
    /\ base_handler.returned = "false"
    /\ base_handler.sent = <<[kind |-> "usage", out |-> "delivered"]>>

\* ------------------------------------------------------------------ C25
\* C25: at most one worker thread runs fetch_multiple_balances at any time,
\* and while one runs the lock stays set, so that no new check is admitted
\* before the earlier fetch has ended, a fetch that timed out included.
C25_OneFetchAtATime ==
    /\ fetch_threads <= 1
    /\ fetch_threads > 0 => CHECK_EXECUTION_LOCK

\* ------------------------------------------------------------------ C26
\* two deliveries of one event, unchanged
SameEvent(a, b) == SamePair(a, b) /\ a.created = b.created

\* C26: an event whose create_time was not later than the time it was first
\* accepted passes the duplicate filter, and so reaches a handler, at most
\* once over the whole run, however late it is delivered again unchanged:
\* inside the TTL its keys are in the cache, and once they have expired it
\* is older than 60 seconds.
C26_UnchangedReplayIsNeverDispatchedAgain ==
    \A i, j \in DOMAIN passes :
        (i < j /\ SameEvent(passes[i], passes[j])) => passes[i].created > passes[i].at

\* C26: an event that had been handled was delivered again unchanged after
\* more than the TTL and was dropped as stale.
C26_Witness ==
    /\ last.verdict = "stale"
    /\ \E i \in DOMAIN passes :
          /\ SamePair(passes[i], last)
          /\ passes[i].created = now - last.age
          /\ passes[i].created <= passes[i].at
          /\ passes[i].fate = "handled"
          /\ now - passes[i].at > Ttl

\* ------------------------------------------------------------------ C27
\* the tasks whose command is executing inside `async with api_client`
Executing == {t \in Tasks : task[t].pc \notin {"idle", "aenter", "failed", "aexit"}}

\* C27: while a command is executing inside the session scope of the shared
\* API client, api_client.session is the session its own entry opened and
\* that session is open: no other event replaces it or closes it, so every
\* response the command sends goes out through an open session.
C27_SessionStaysOpenWhileExecuting ==
    \A t \in Executing : task[t].own_session /\ session = "open"

\* ------------------------------------------------------------------ C28
\* C28: unregister(name) leaves every other command as it was: a token, in
\* any letter case, that resolved to the handler of a command other than
\* name before the call resolves to the same handler after it, whatever
\* register calls came before, two commands with a common alias included.
C28_UnregisterLeavesOtherCommands ==
    [][ RegistryCall("unregister") =>
          \A token \in Tokens :
              LET before == Resolve(token) IN
              (before # None /\ Lower(before.name) # reg_log'.name) =>
                  get_handler(handlers', aliases', token) = before ]_vars

\* ------------------------------------------------------------------ C29
\* C29: an event that arrives without an event id, is not stale, and whose
\* message id is not among the live entries of the cache (so it is another
\* message than every event accepted before it) is not dropped as a
\* duplicate: events without event ids are told apart by their message ids.
C29_NoEventIdMeansMessageIdDecides ==
    [][ ( /\ deliveries' = deliveries + 1
          /\ last'.event_id = ""
          /\ ~is_too_old(now, now - last'.age)
          /\ message_key(last'.message_id) \notin
                 DOMAIN cleanup_message_cache(PROCESSED_MESSAGES, now) )
        => last'.verdict # "duplicate" ]_vars

\* ------------------------------------------------------------------ C30
\* C30: the rate limiter records a timestamp for the commands it accepts
\* and for no other.  When it denies, the sender's list becomes the list it
\* had with the timestamps outside the window dropped, nothing added; every
\* recorded timestamp is the time of an accepted command of that sender, so
\* denied attempts do not lengthen the lockout: a sender whose accepted
\* commands inside the window are fewer than max_commands is accepted,
\* however many attempts were denied before.
C30_DenialIsNotTimestamped ==
    /\ [](\A s \in DOMAIN user_commands :
            /\ Len(user_commands[s]) <= Cardinality(AcceptedOf(s))
            /\ \A i \in DOMAIN user_commands[s] :
                  \E j \in AcceptedOf(s) : passes[j].accepted_at = user_commands[s][i])
    /\ [][ \A t \in Tasks : RateLimiterDecides(t) =>
             LET s == task[t].sender
                 before == user_stamps(user_commands, s)
             IN /\ task'[t].pc = "mw_send_rate" =>
                      /\ user_commands'[s] = prune(before, now)
                      /\ passes'[task[t].hidx].accepted_at < 0
                /\ Cardinality({j \in AcceptedOf(s) :
                                  passes[j].accepted_at > now - Window}) < MaxCommands
                      => task'[t].pc = "lookup" ]_vars

\* C30: a sender's command was accepted, the next was denied at the same
\* instant and left no timestamp, and the one sent exactly time_window after
\* the accepted one, when its timestamp leaves the window, was accepted.
C30_Witness ==
    \E i, j, k \in DOMAIN passes :
        /\ i < j /\ j < k
        /\ passes[j].sender = passes[i].sender
        /\ passes[k].sender = passes[i].sender
        /\ passes[i].accepted_at >= 0
        /\ passes[j].fate = "blocked"
        /\ passes[j].at = passes[i].accepted_at
        /\ passes[k].accepted_at = passes[i].accepted_at + Window
        /\ user_commands[passes[i].sender] = <<passes[k].accepted_at>>

====
